---------------------------- MODULE Spec2Model ----------------------------
(***************************************************************************)
(* A model of the BinHex 4.0 decoding pipeline of clarus (src/src/binhex):  *)
(*   read.rs     EncodedBinHexReader  banner / delimiter / whitespace       *)
(*   expand.rs   BinHexExpander       run-length expansion                  *)
(*   archive.rs  BinHexArchive        header, forks, CRC16/XMODEM checks    *)
(* Bytes are the integers 0..255.  Slices are sequences; the offsets the    *)
(* Rust code uses are 0-based and are kept 0-based in the operators below.  *)
(* Option<T> is a sequence of length 0 (None) or 1 (Some).                  *)
(***************************************************************************)
EXTENDS Integers, Sequences, FiniteSets, TLC

VARIABLES
    \* ---- EncodedBinHexReader (read.rs)
    rsrc,      \* the bytes of the underlying source (the container)
    rparts,    \* how the container was put together: prefix, tail, payload, rest
    rpos,      \* number of bytes the source has delivered so far
    rstate,    \* EncodedBinHexReader.state
    rpc,       \* "idle": no call in progress; "loop": inside read()'s outer loop
    rcap,      \* buf.len() of the current / last read() call
    rout,      \* all bytes returned by the read() calls so far, concatenated
    rret,      \* result of the last read() call
    rn,        \* the count of the last Ok(count)
    \* ---- BinHexExpander (expand.rs)
    xsrc,      \* the compressed bytes of the underlying source
    xfetched,  \* number of bytes BufReader has fetched from the underlying source
    xbuf,      \* BufReader: fetched bytes not yet consumed
    xstate,    \* BinHexExpander.state
    xpc,       \* "idle" / "loop"
    xcap,      \* dest.len() of the current / last read() call
    xdest,     \* dest[0..bytes_copied] of the call in progress
    xout,      \* all bytes returned by the read() calls so far, concatenated
    xret,      \* result of the last read() call
    xn,        \* the count of the last Ok(count)
    \* ---- BinHexArchive (archive.rs)
    astream,   \* the expanded stream the archive reads (header, forks, checksums)
    ainfo,     \* how the stream was put together (the archive it was made from)
    apos,      \* number of bytes of the expanded stream consumed so far
    apc,       \* "new", "ready", "copy", "done"
    asection,  \* the section copy_fork is working on
    header,    \* BinHexArchive.header: None or Some(BinHexHeader)
    fork,      \* the ForkReader of the running copy_fork: len, bytes_read, crc
    dataOut,   \* bytes written to data_writer
    rsrcOut,   \* bytes written to resource_writer
    aresult,   \* result of BinHexArchive::new / extract
    alog,      \* the kinds of I/O step extract has made, in order
    aget,      \* for each accessor, what its last call returned: None or Some(value)
    acalls,    \* number of accessor calls made so far
    aio        \* the I/O failure the source or a sink has raised: None or
               \* Some of its operation and error kind

rvars == <<rsrc, rparts, rpos, rstate, rpc, rcap, rout, rret, rn>>
xvars == <<xsrc, xfetched, xbuf, xstate, xpc, xcap, xdest, xout, xret, xn>>
avars == <<astream, ainfo, apos, apc, asection, header, fork, dataOut, rsrcOut,
           aresult, alog, aget, acalls, aio>>
vars == <<rvars, xvars, avars>>

---------------------------------------------------------------------------
(* Slices and searches                                                     *)

None == <<>>
Some(x) == <<x>>

Min(a, b) == IF a <= b THEN a ELSE b

\* s[a..b] with 0-based, end-exclusive offsets
Slice(s, a, b) == SubSeq(s, a + 1, b)

\* memchr::memchr(needle, haystack): 0-based index of the first occurrence
memchr(needle, haystack) ==
    LET hits == {i \in 1..Len(haystack) : haystack[i] = needle}
    IN  IF hits = {} THEN None
        ELSE Some((CHOOSE i \in hits : \A j \in hits : i <= j) - 1)

\* slice::starts_with
starts_with(s, p) == Len(p) <= Len(s) /\ SubSeq(s, 1, Len(p)) = p

\* slice::copy_within(src_start..src_end, dest), memmove semantics
copy_within(s, src_start, src_end, dest) ==
    [i \in 1..Len(s) |->
        IF dest < i /\ i <= dest + (src_end - src_start)
        THEN s[src_start + (i - dest)]
        ELSE s[i]]

---------------------------------------------------------------------------
(* read.rs                                                                 *)

BANNER == <<40, 84, 104, 105, 115, 32, 102, 105, 108, 101, 32, 109, 117, 115,
            116, 32, 98, 101, 32, 99, 111, 110, 118, 101, 114, 116, 101, 100,
            32, 119, 105, 116, 104, 32, 66, 105, 110, 72, 101, 120>>
DATA_DELIMITER == 58

SPACE == 32
TAB == 9
CR == 13
LF == 10
Whitespace == {SPACE, TAB, CR, LF}

RState(tag, matched) == [tag |-> tag, matched |-> matched]
FindBannerStart == RState("FindBannerStart", 0)
PartialBannerMatch(n) == RState("PartialBannerMatch", n)
FindDataStart == RState("FindDataStart", 0)
ReadData == RState("ReadData", 0)
RDone == RState("Done", 0)
RPanic == RState("panic", 0)

REvent(tag, n) == [tag |-> tag, n |-> n]

\* (faulty variant) advance without the transition of a failed partial match
read_advance_no_failed_match(state, event) ==
    CASE state.tag = "FindBannerStart" /\ event.tag = "ConsumedBytes" ->
            FindBannerStart
      [] state.tag = "FindBannerStart" /\ event.tag = "FoundBannerStart" ->
            PartialBannerMatch(1)
      [] state.tag = "PartialBannerMatch" /\ event.tag = "MatchedBannerBytes" ->
            IF state.matched + event.n = Len(BANNER)
            THEN FindDataStart
            ELSE PartialBannerMatch(state.matched + event.n)
      [] state.tag = "FindDataStart" /\ event.tag = "ConsumedBytes" ->
            FindDataStart
      [] state.tag = "FindDataStart" /\ event.tag = "FoundDataStart" ->
            ReadData
      [] state.tag = "ReadData" /\ event.tag = "ConsumedBytes" ->
            ReadData
      [] state.tag = "ReadData" /\ event.tag = "FoundDataEnd" ->
            RDone
      [] OTHER -> RPanic

\* (faulty variant) advance that looks for the banner again when no opening
\* delimiter is among the bytes after it
read_advance_forgets_banner(state, event) ==
    CASE state.tag = "FindBannerStart" /\ event.tag = "ConsumedBytes" ->
            FindBannerStart
      [] state.tag = "FindBannerStart" /\ event.tag = "FoundBannerStart" ->
            PartialBannerMatch(1)
      [] state.tag = "PartialBannerMatch" /\ event.tag = "ConsumedBytes" ->
            FindBannerStart
      [] state.tag = "PartialBannerMatch" /\ event.tag = "MatchedBannerBytes" ->
            IF state.matched + event.n = Len(BANNER)
            THEN FindDataStart
            ELSE PartialBannerMatch(state.matched + event.n)
      [] state.tag = "FindDataStart" /\ event.tag = "ConsumedBytes" ->
            FindBannerStart
      [] state.tag = "FindDataStart" /\ event.tag = "FoundDataStart" ->
            ReadData
      [] state.tag = "ReadData" /\ event.tag = "ConsumedBytes" ->
            ReadData
      [] state.tag = "ReadData" /\ event.tag = "FoundDataEnd" ->
            RDone
      [] OTHER -> RPanic

\* (faulty variant) advance that counts no byte as matched when the banner's
\* first byte is found
read_advance_match_from_zero(state, event) ==
    CASE state.tag = "FindBannerStart" /\ event.tag = "ConsumedBytes" ->
            FindBannerStart
      [] state.tag = "FindBannerStart" /\ event.tag = "FoundBannerStart" ->
            PartialBannerMatch(0)
      [] state.tag = "PartialBannerMatch" /\ event.tag = "ConsumedBytes" ->
            FindBannerStart
      [] state.tag = "PartialBannerMatch" /\ event.tag = "MatchedBannerBytes" ->
            IF state.matched + event.n = Len(BANNER)
            THEN FindDataStart
            ELSE PartialBannerMatch(state.matched + event.n)
      [] state.tag = "FindDataStart" /\ event.tag = "ConsumedBytes" ->
            FindDataStart
      [] state.tag = "FindDataStart" /\ event.tag = "FoundDataStart" ->
            ReadData
      [] state.tag = "ReadData" /\ event.tag = "ConsumedBytes" ->
            ReadData
      [] state.tag = "ReadData" /\ event.tag = "FoundDataEnd" ->
            RDone
      [] OTHER -> RPanic

\* State::advance
read_advance(state, event) ==
    CASE state.tag = "FindBannerStart" /\ event.tag = "ConsumedBytes" ->
            FindBannerStart
      [] state.tag = "FindBannerStart" /\ event.tag = "FoundBannerStart" ->
            PartialBannerMatch(1)
      [] state.tag = "PartialBannerMatch" /\ event.tag = "ConsumedBytes" ->
            FindBannerStart
      [] state.tag = "PartialBannerMatch" /\ event.tag = "MatchedBannerBytes" ->
            IF state.matched + event.n = Len(BANNER)
            THEN FindDataStart
            ELSE PartialBannerMatch(state.matched + event.n)
      [] state.tag = "FindDataStart" /\ event.tag = "ConsumedBytes" ->
            FindDataStart
      [] state.tag = "FindDataStart" /\ event.tag = "FoundDataStart" ->
            ReadData
      [] state.tag = "ReadData" /\ event.tag = "ConsumedBytes" ->
            ReadData
      [] state.tag = "ReadData" /\ event.tag = "FoundDataEnd" ->
            RDone
      [] OTHER -> RPanic

\* (faulty variant) next_whitespace that does not know the tab
next_whitespace_without_tab(bytes) ==
    LET a == memchr(SPACE, bytes)
        hits == {i \in 1..Len(bytes) : bytes[i] \in {CR, LF}}
        b == IF hits = {} THEN None
             ELSE Some((CHOOSE i \in hits : \A j \in hits : i <= j) - 1)
    IN  IF a # None /\ b # None THEN Some(Min(a[1], b[1]))
        ELSE IF a # None THEN a ELSE b

\* next_whitespace: the first of memchr(b' ') and memchr3(b'\t', b'\r', b'\n')
next_whitespace(bytes) ==
    LET a == memchr(SPACE, bytes)
        hits == {i \in 1..Len(bytes) : bytes[i] \in {TAB, CR, LF}}
        b == IF hits = {} THEN None
             ELSE Some((CHOOSE i \in hits : \A j \in hits : i <= j) - 1)
    IN  IF a # None /\ b # None THEN Some(Min(a[1], b[1]))
        ELSE IF a # None THEN a ELSE b

\* bytes.iter().take_while(|b| b" \t\r\n".contains(b)).count()
RECURSIVE leading_whitespace(_)
leading_whitespace(bytes) ==
    IF bytes = <<>> \/ bytes[1] \notin Whitespace THEN 0
    ELSE 1 + leading_whitespace(Tail(bytes))

\* next_data_byte
next_data_byte(bytes) ==
    IF bytes = <<>> THEN None
    ELSE LET leading_whitespace_bytes == leading_whitespace(bytes)
         IN  IF leading_whitespace_bytes = Len(bytes) THEN None
             ELSE Some(leading_whitespace_bytes)

\* compact: the while-let loop; returns the slice as left behind and bytes_written
RECURSIVE compact_loop(_, _, _)
compact_loop(bytes, scan, bytes_written) ==
    LET nd == next_data_byte(Slice(bytes, scan, Len(bytes)))
    IN  IF nd = None THEN [bytes |-> bytes, n |-> bytes_written]
        ELSE LET start_offset == nd[1]
                 chunk_start == scan + start_offset
                 ws == next_whitespace(Slice(bytes, chunk_start, Len(bytes)))
                 chunk_end == IF ws = None THEN Len(bytes) ELSE chunk_start + ws[1]
                 len == chunk_end - chunk_start
             IN  compact_loop(copy_within(bytes, chunk_start, chunk_end, bytes_written),
                              scan + start_offset + len, bytes_written + len)

compact(bytes) == compact_loop(bytes, 0, 0)

\* What an arm of the inner loop's match in EncodedBinHexReader::read leaves:
\* the event, and buf, bytes_consumed and bytes_copied afterwards.
RArm(ev, b, cons, cop) == [event |-> ev, buf |-> b, consumed |-> cons, copied |-> cop]

\* (faulty variant) FindBannerStart looking at the first byte it is given only
find_banner_start_arm_first_byte(buf, bytes_read, bytes_consumed, bytes_copied) ==
    IF buf[bytes_consumed + 1] = BANNER[1]
    THEN RArm(REvent("FoundBannerStart", 0), buf, bytes_consumed + 1, bytes_copied)
    ELSE RArm(REvent("ConsumedBytes", 0), buf, bytes_read, bytes_copied)

\* State::FindBannerStart => ...
find_banner_start_arm(buf, bytes_read, bytes_consumed, bytes_copied) ==
    LET m == memchr(BANNER[1], Slice(buf, bytes_consumed, bytes_read))
    IN  IF m # None
        THEN RArm(REvent("FoundBannerStart", 0), buf,
                  bytes_consumed + m[1] + 1, bytes_copied)
        ELSE RArm(REvent("ConsumedBytes", 0), buf, bytes_read, bytes_copied)

\* (faulty variant) PartialBannerMatch passing over the byte that did not match
partial_banner_match_arm_skips(matched, buf, bytes_read, bytes_consumed, bytes_copied) ==
    LET check_len == Min(bytes_read - bytes_consumed, Len(BANNER) - matched)
    IN  IF starts_with(Slice(buf, bytes_consumed, Len(buf)),
                       Slice(BANNER, matched, matched + check_len))
        THEN RArm(REvent("MatchedBannerBytes", check_len), buf,
                  bytes_consumed + check_len, bytes_copied)
        ELSE RArm(REvent("ConsumedBytes", 0), buf, bytes_consumed + 1, bytes_copied)

\* State::PartialBannerMatch(matched) => ...
partial_banner_match_arm(matched, buf, bytes_read, bytes_consumed, bytes_copied) ==
    LET check_len == Min(bytes_read - bytes_consumed, Len(BANNER) - matched)
    IN  IF starts_with(Slice(buf, bytes_consumed, Len(buf)),
                       Slice(BANNER, matched, matched + check_len))
        THEN RArm(REvent("MatchedBannerBytes", check_len), buf,
                  bytes_consumed + check_len, bytes_copied)
        ELSE RArm(REvent("ConsumedBytes", 0), buf, bytes_consumed, bytes_copied)

\* State::FindDataStart => ...
find_data_start_arm(buf, bytes_read, bytes_consumed, bytes_copied) ==
    LET m == memchr(DATA_DELIMITER, Slice(buf, bytes_consumed, bytes_read))
    IN  IF m # None
        THEN RArm(REvent("FoundDataStart", 0), buf,
                  bytes_consumed + m[1] + 1, bytes_copied)
        ELSE RArm(REvent("ConsumedBytes", 0), buf, bytes_read, bytes_copied)

\* State::ReadData => ...
read_data_arm(buf, bytes_read, bytes_consumed, bytes_copied) ==
    LET nd == next_data_byte(Slice(buf, bytes_consumed, bytes_read))
    IN  IF nd # None
        THEN LET start == nd[1]
                 from == bytes_consumed + start
                 c == compact(Slice(buf, from, bytes_read))
                 data_bytes == c.n
                 buf1 == Slice(buf, 0, from) \o c.bytes
                            \o Slice(buf, bytes_read, Len(buf))
                 buf2 == IF from > 0
                         THEN copy_within(buf1, from, from + data_bytes, 0)
                         ELSE buf1
                 e == memchr(DATA_DELIMITER, Slice(buf2, 0, data_bytes))
             IN  IF e # None
                 THEN RArm(REvent("FoundDataEnd", 0), buf2,
                           bytes_consumed, bytes_copied + e[1])
                 ELSE RArm(REvent("ConsumedBytes", 0), buf2,
                           bytes_read, bytes_copied + data_bytes)
        ELSE RArm(REvent("ConsumedBytes", 0), buf, bytes_read, bytes_copied)

\* let event = match self.state { ... }
read_arm(state, buf, bytes_read, bytes_consumed, bytes_copied) ==
    CASE state.tag = "FindBannerStart" ->
            find_banner_start_arm(buf, bytes_read, bytes_consumed, bytes_copied)
      [] state.tag = "PartialBannerMatch" ->
            partial_banner_match_arm(state.matched, buf, bytes_read,
                                     bytes_consumed, bytes_copied)
      [] state.tag = "FindDataStart" ->
            find_data_start_arm(buf, bytes_read, bytes_consumed, bytes_copied)
      [] state.tag = "ReadData" ->
            read_data_arm(buf, bytes_read, bytes_consumed, bytes_copied)

\* The inner loop: while bytes_consumed < bytes_read && self.state != State::Done
RECURSIVE read_inner(_, _, _, _, _)

\* ... self.state = self.state.advance(event) has given next: the loop goes on
\* with what the arm a left (a panic of advance ends it)
read_inner_next(next, a, bytes_read) ==
    IF next = RPanic
    THEN [state |-> RPanic, buf |-> a.buf, copied |-> a.copied]
    ELSE read_inner(next, a.buf, bytes_read, a.consumed, a.copied)

\* ... the arm of the match has left a: self.state.advance(event)
read_inner_arm(state, a, bytes_read) ==
    read_inner_next(read_advance(state, a.event), a, bytes_read)

read_inner(state, buf, bytes_read, bytes_consumed, bytes_copied) ==
    IF ~(bytes_consumed < bytes_read /\ state.tag # "Done")
    THEN [state |-> state, buf |-> buf, copied |-> bytes_copied]
    ELSE read_inner_arm(state,
                        read_arm(state, buf, bytes_read, bytes_consumed, bytes_copied),
                        bytes_read)

\* The passes of the inner loop, in order: for each pass the state it was made
\* in, the event of its arm, bytes_consumed before and after it, bytes_copied
\* after it, and the state advance has given
RECURSIVE read_passes(_, _, _, _, _)

read_passes_next(state, next, a, bytes_read, bytes_consumed) ==
    <<[state |-> state, event |-> a.event, from |-> bytes_consumed,
       consumed |-> a.consumed, copied |-> a.copied, next |-> next]>>
    \o (IF next = RPanic THEN <<>>
        ELSE read_passes(next, a.buf, bytes_read, a.consumed, a.copied))

read_passes_arm(state, a, bytes_read, bytes_consumed) ==
    read_passes_next(state, read_advance(state, a.event), a, bytes_read, bytes_consumed)

read_passes(state, buf, bytes_read, bytes_consumed, bytes_copied) ==
    IF ~(bytes_consumed < bytes_read /\ state.tag # "Done")
    THEN <<>>
    ELSE read_passes_arm(state,
                         read_arm(state, buf, bytes_read, bytes_consumed, bytes_copied),
                         bytes_read, bytes_consumed)

Zeros(n) == [i \in 1..n |-> 0]

\* EncodedBinHexReader::new
ReaderNew(container, parts) ==
    /\ rsrc = container
    /\ rparts = parts
    /\ rpos = 0
    /\ rstate = FindBannerStart
    /\ rpc = "idle"
    /\ rcap = 0
    /\ rout = <<>>
    /\ rret = "none"
    /\ rn = 0

\* (faulty variant) read going to the source without looking at the state
ReaderCall_reads_when_done(d) ==
    /\ rpc = "idle"
    /\ rcap' = d
    /\ IF d = 0
       THEN /\ rret' = "Ok"
            /\ rn' = 0
            /\ UNCHANGED <<rpc>>
       ELSE /\ rpc' = "loop"
            /\ UNCHANGED <<rret, rn>>
    /\ UNCHANGED <<rsrc, rparts, rpos, rstate, rout>>

\* read(buf) is entered with a buffer of d bytes
ReaderCall(d) ==
    /\ rpc = "idle"
    /\ rcap' = d
    /\ IF d = 0 \/ rstate.tag = "Done"
       THEN /\ rret' = "Ok"
            /\ rn' = 0
            /\ UNCHANGED <<rpc>>
       ELSE /\ rpc' = "loop"
            /\ UNCHANGED <<rret, rn>>
    /\ UNCHANGED <<rsrc, rparts, rpos, rstate, rout>>

\* (faulty variant) the end of the source taken for the end of the stream
\* while the banner or the opening delimiter is still looked for
source_eof_ends_scan(state, n) ==
    IF state.tag \in {"FindBannerStart", "PartialBannerMatch", "FindDataStart"}
    THEN [ret |-> "Ok", n |-> 0]
    ELSE [ret |-> "UnexpectedEof", n |-> n]

\* (faulty variant) the end of the source taken for the closing delimiter
source_eof_ends_data(state, n) ==
    IF state.tag = "ReadData"
    THEN [ret |-> "Ok", n |-> 0]
    ELSE [ret |-> "UnexpectedEof", n |-> n]

\* Ok(0) => return Err(Error::from(ErrorKind::UnexpectedEof)), in whatever state
source_eof(state, n) == [ret |-> "UnexpectedEof", n |-> n]

\* (faulty variant) read without the outer loop: it returns after one source
\* read, whatever was copied
ReaderFill_returns_after_one(bytes_read) ==
    /\ rpc = "loop"
    /\ IF bytes_read = 0
       THEN /\ rpos = Len(rsrc)
            /\ rpc' = "idle"
            /\ rret' = source_eof(rstate, rn).ret
            /\ rn' = source_eof(rstate, rn).n
            /\ UNCHANGED <<rpos, rstate, rout>>
       ELSE /\ bytes_read <= Min(rcap, Len(rsrc) - rpos)
            /\ LET buf == Slice(rsrc, rpos, rpos + bytes_read) \o Zeros(rcap - bytes_read)
                   r == read_inner(rstate, buf, bytes_read, 0, 0)
               IN  /\ rpos' = rpos + bytes_read
                   /\ rstate' = r.state
                   /\ IF r.state = RPanic
                      THEN /\ rpc' = "idle"
                           /\ rret' = "panic"
                           /\ UNCHANGED <<rout, rn>>
                      ELSE /\ rpc' = "idle"
                           /\ rret' = "Ok"
                           /\ rn' = r.copied
                           /\ rout' = rout \o Slice(r.buf, 0, r.copied)
    /\ UNCHANGED <<rsrc, rparts, rcap>>

\* One pass of the outer loop: self.source.read(buf) delivers bytes_read bytes
\* (0 only at the end of the source), the inner loop works through them, and
\* read returns when it has copied something, reached Done, or failed.
ReaderFill(bytes_read) ==
    /\ rpc = "loop"
    /\ IF bytes_read = 0
       THEN /\ rpos = Len(rsrc)
            /\ rpc' = "idle"
            /\ rret' = source_eof(rstate, rn).ret
            /\ rn' = source_eof(rstate, rn).n
            /\ UNCHANGED <<rpos, rstate, rout>>
       ELSE /\ bytes_read <= Min(rcap, Len(rsrc) - rpos)
            /\ LET buf == Slice(rsrc, rpos, rpos + bytes_read) \o Zeros(rcap - bytes_read)
                   r == read_inner(rstate, buf, bytes_read, 0, 0)
               IN  /\ rpos' = rpos + bytes_read
                   /\ rstate' = r.state
                   /\ IF r.state = RPanic
                      THEN /\ rpc' = "idle"
                           /\ rret' = "panic"
                           /\ UNCHANGED <<rout, rn>>
                      ELSE IF r.copied = 0 /\ r.state.tag # "Done"
                      THEN UNCHANGED <<rpc, rret, rout, rn>>
                      ELSE /\ rpc' = "idle"
                           /\ rret' = "Ok"
                           /\ rn' = r.copied
                           /\ rout' = rout \o Slice(r.buf, 0, r.copied)
    /\ UNCHANGED <<rsrc, rparts, rcap>>

---------------------------------------------------------------------------
(* expand.rs                                                               *)

RLE_ESCAPE == 144
CANCEL_ESCAPE == 0

\* enum State: Scan(Option<u8>), Escape(Option<u8>), Expand(u8, usize), Done
XState(tag, last, byte, n) == [tag |-> tag, last |-> last, byte |-> byte, n |-> n]
Scan(last) == XState("Scan", last, 0, 0)
Escape(last) == XState("Escape", last, 0, 0)
Expand(byte, run_length) == XState("Expand", None, byte, run_length)
XDone == XState("Done", None, 0, 0)
\* the two ways advance does not produce a state
XInvalidData == XState("InvalidData", None, 0, 0)
XPanic == XState("panic", None, 0, 0)

\* enum Event
XEvent(tag, n, byte) == [tag |-> tag, n |-> n, byte |-> byte]
CopiedBytes(n, last_byte) == XEvent("CopiedBytes", n, last_byte)
FoundEscape == XEvent("FoundEscape", 0, 0)
FoundRunLength(n) == XEvent("FoundRunLength", n, 0)
SourceEmpty == XEvent("SourceEmpty", 0, 0)

\* (faulty variant) advance that does not count down the run it is expanding
expand_advance_no_countdown(state, event) ==
    CASE state.tag = "Scan" /\ event.tag = "CopiedBytes" -> Scan(Some(event.byte))
      [] state.tag = "Scan" /\ event.tag = "FoundEscape" -> Escape(state.last)
      [] state.tag = "Scan" /\ event.tag = "SourceEmpty" -> XDone
      [] state.tag = "Escape" /\ event.tag = "CopiedBytes" -> Scan(Some(event.byte))
      [] state.tag = "Escape" /\ state.last # None /\ event.tag = "FoundRunLength" ->
            Expand(state.last[1], event.n)
      [] state.tag = "Escape" /\ event.tag = "SourceEmpty" -> XInvalidData
      [] state.tag = "Expand" /\ event.tag = "CopiedBytes" ->
            IF event.n < state.n
            THEN Expand(state.byte, state.n)
            ELSE Scan(None)
      [] OTHER -> XPanic

\* (faulty variant) advance taking the end of the source after an escape for
\* the end of the stream
expand_advance_escape_eof_done(state, event) ==
    CASE state.tag = "Scan" /\ event.tag = "CopiedBytes" -> Scan(Some(event.byte))
      [] state.tag = "Scan" /\ event.tag = "FoundEscape" -> Escape(state.last)
      [] state.tag = "Scan" /\ event.tag = "SourceEmpty" -> XDone
      [] state.tag = "Escape" /\ event.tag = "CopiedBytes" -> Scan(Some(event.byte))
      [] state.tag = "Escape" /\ state.last # None /\ event.tag = "FoundRunLength" ->
            Expand(state.last[1], event.n)
      [] state.tag = "Escape" /\ event.tag = "SourceEmpty" -> XDone
      [] state.tag = "Expand" /\ event.tag = "CopiedBytes" ->
            IF event.n < state.n
            THEN Expand(state.byte, state.n - event.n)
            ELSE Scan(None)
      [] OTHER -> XPanic

\* (faulty variant) advance that ends a run with the first pass of the Expand
\* arm, however much of the run is left
expand_advance_run_dropped(state, event) ==
    CASE state.tag = "Scan" /\ event.tag = "CopiedBytes" -> Scan(Some(event.byte))
      [] state.tag = "Scan" /\ event.tag = "FoundEscape" -> Escape(state.last)
      [] state.tag = "Scan" /\ event.tag = "SourceEmpty" -> XDone
      [] state.tag = "Escape" /\ event.tag = "CopiedBytes" -> Scan(Some(event.byte))
      [] state.tag = "Escape" /\ state.last # None /\ event.tag = "FoundRunLength" ->
            Expand(state.last[1], event.n)
      [] state.tag = "Escape" /\ event.tag = "SourceEmpty" -> XInvalidData
      [] state.tag = "Expand" /\ event.tag = "CopiedBytes" -> Scan(None)
      [] OTHER -> XPanic

\* (faulty variant) advance that keeps the byte remembered before a cancelled
\* escape instead of the 0x90 it has emitted
expand_advance_stale_last(state, event) ==
    CASE state.tag = "Scan" /\ event.tag = "CopiedBytes" -> Scan(Some(event.byte))
      [] state.tag = "Scan" /\ event.tag = "FoundEscape" -> Escape(state.last)
      [] state.tag = "Scan" /\ event.tag = "SourceEmpty" -> XDone
      [] state.tag = "Escape" /\ event.tag = "CopiedBytes" -> Scan(state.last)
      [] state.tag = "Escape" /\ state.last # None /\ event.tag = "FoundRunLength" ->
            Expand(state.last[1], event.n)
      [] state.tag = "Escape" /\ event.tag = "SourceEmpty" -> XInvalidData
      [] state.tag = "Expand" /\ event.tag = "CopiedBytes" ->
            IF event.n < state.n
            THEN Expand(state.byte, state.n - event.n)
            ELSE Scan(None)
      [] OTHER -> XPanic

\* (faulty variant) advance that takes a run for finished only when more
\* bytes were copied than it had left
expand_advance_run_never_ends(state, event) ==
    CASE state.tag = "Scan" /\ event.tag = "CopiedBytes" -> Scan(Some(event.byte))
      [] state.tag = "Scan" /\ event.tag = "FoundEscape" -> Escape(state.last)
      [] state.tag = "Scan" /\ event.tag = "SourceEmpty" -> XDone
      [] state.tag = "Escape" /\ event.tag = "CopiedBytes" -> Scan(Some(event.byte))
      [] state.tag = "Escape" /\ state.last # None /\ event.tag = "FoundRunLength" ->
            Expand(state.last[1], event.n)
      [] state.tag = "Escape" /\ event.tag = "SourceEmpty" -> XInvalidData
      [] state.tag = "Expand" /\ event.tag = "CopiedBytes" ->
            IF event.n <= state.n
            THEN Expand(state.byte, state.n - event.n)
            ELSE Scan(None)
      [] OTHER -> XPanic

\* State::advance
expand_advance(state, event) ==
    CASE state.tag = "Scan" /\ event.tag = "CopiedBytes" -> Scan(Some(event.byte))
      [] state.tag = "Scan" /\ event.tag = "FoundEscape" -> Escape(state.last)
      [] state.tag = "Scan" /\ event.tag = "SourceEmpty" -> XDone
      [] state.tag = "Escape" /\ event.tag = "CopiedBytes" -> Scan(Some(event.byte))
      [] state.tag = "Escape" /\ state.last # None /\ event.tag = "FoundRunLength" ->
            Expand(state.last[1], event.n)
      [] state.tag = "Escape" /\ event.tag = "SourceEmpty" -> XInvalidData
      [] state.tag = "Expand" /\ event.tag = "CopiedBytes" ->
            IF event.n < state.n
            THEN Expand(state.byte, state.n - event.n)
            ELSE Scan(None)
      [] OTHER -> XPanic

Fill(n, byte) == [i \in 1..n |-> byte]

\* What an arm of the match in BinHexExpander::read leaves: the event,
\* dest[0..bytes_copied] afterwards, and the number of bytes consumed from the
\* BufReader.  panic: an index or an assertion failed; return: the arm returned.
XArm(ev, c, cons) == [event |-> ev, copied |-> c, consumed |-> cons,
                      panic |-> FALSE, return |-> FALSE]
XArmPanic(copied) == [event |-> SourceEmpty, copied |-> copied, consumed |-> 0,
                      panic |-> TRUE, return |-> FALSE]
XArmReturn(copied) == [event |-> SourceEmpty, copied |-> copied, consumed |-> 0,
                       panic |-> FALSE, return |-> TRUE]

\* State::Scan(_) => ...
scan_arm(buf, dest_len, copied) ==
    IF buf = <<>> THEN XArm(SourceEmpty, copied, 0)
    ELSE LET capacity == Min(Len(buf), dest_len - Len(copied))
             m == memchr(RLE_ESCAPE, Slice(buf, 0, capacity))
         IN  IF m # None /\ m[1] = 0
             THEN XArm(FoundEscape, copied, 1)
             ELSE IF m # None
             THEN LET pos == m[1]
                  IN  XArm(CopiedBytes(pos, buf[pos]), copied \o Slice(buf, 0, pos), pos)
             \* debug_assert!(capacity > 0), and buf[capacity - 1]
             ELSE IF capacity = 0 THEN XArmPanic(copied)
             ELSE XArm(CopiedBytes(capacity, buf[capacity]),
                       copied \o Slice(buf, 0, capacity), capacity)

\* (faulty variant) Escape arm that takes the count byte as the number of bytes to add
escape_arm_count_not_reduced(buf, dest_len, copied) ==
    IF buf = <<>> THEN XArm(SourceEmpty, copied, 0)
    ELSE IF buf[1] = CANCEL_ESCAPE
    THEN IF Len(copied) >= dest_len THEN XArmPanic(copied)
         ELSE XArm(CopiedBytes(1, RLE_ESCAPE), copied \o <<RLE_ESCAPE>>, 1)
    ELSE LET run_length == buf[1]
         IN  XArm(FoundRunLength(run_length), copied, 1)

\* (faulty variant) Escape arm that drops a cancelled escape instead of emitting 0x90
escape_arm_cancel_dropped(buf, dest_len, copied) ==
    IF buf = <<>> THEN XArm(SourceEmpty, copied, 0)
    ELSE IF buf[1] = CANCEL_ESCAPE
    THEN IF Len(copied) >= dest_len THEN XArmPanic(copied)
         ELSE XArm(CopiedBytes(0, RLE_ESCAPE), copied, 1)
    ELSE LET run_length == buf[1]
         IN  XArm(FoundRunLength(run_length - 1), copied, 1)

\* State::Escape(_) => ...
escape_arm(buf, dest_len, copied) ==
    IF buf = <<>> THEN XArm(SourceEmpty, copied, 0)
    ELSE IF buf[1] = CANCEL_ESCAPE
    THEN \* dest[bytes_copied] = RLE_ESCAPE
         IF Len(copied) >= dest_len THEN XArmPanic(copied)
         ELSE XArm(CopiedBytes(1, RLE_ESCAPE), copied \o <<RLE_ESCAPE>>, 1)
    ELSE LET run_length == buf[1]
         IN  XArm(FoundRunLength(run_length - 1), copied, 1)

\* State::Expand(byte, run_length) => ...
expand_run_arm(byte, run_length, dest_len, copied) ==
    LET capacity == Min(run_length, dest_len - Len(copied))
    IN  XArm(CopiedBytes(capacity, byte), copied \o Fill(capacity, byte), 0)

\* (faulty variant) the match without a return in Done: the source is looked
\* at again as in Scan
expand_arm_done_scans(state, buf, dest_len, copied) ==
    CASE state.tag = "Scan" -> scan_arm(buf, dest_len, copied)
      [] state.tag = "Escape" -> escape_arm(buf, dest_len, copied)
      [] state.tag = "Expand" -> expand_run_arm(state.byte, state.n, dest_len, copied)
      [] state.tag = "Done" -> scan_arm(buf, dest_len, copied)

\* let event = match self.state { ... }
expand_arm(state, buf, dest_len, copied) ==
    CASE state.tag = "Scan" -> scan_arm(buf, dest_len, copied)
      [] state.tag = "Escape" -> escape_arm(buf, dest_len, copied)
      [] state.tag = "Expand" -> expand_run_arm(state.byte, state.n, dest_len, copied)
      [] state.tag = "Done" -> XArmReturn(copied)

\* BinHexExpander::new
ExpanderNew(compressed) ==
    /\ xsrc = compressed
    /\ xfetched = 0
    /\ xbuf = <<>>
    /\ xstate = Scan(None)
    /\ xpc = "idle"
    /\ xcap = 0
    /\ xdest = <<>>
    /\ xout = <<>>
    /\ xret = "none"
    /\ xn = 0

\* read(dest) is entered with a destination of d bytes
ExpanderCall(d) ==
    /\ xpc = "idle"
    /\ xpc' = "loop"
    /\ xcap' = d
    /\ xdest' = <<>>      \* let mut bytes_copied = 0
    /\ UNCHANGED <<xsrc, xfetched, xbuf, xstate, xout, xret, xn>>

\* One pass of the loop.  fill_buf hands out the buffered bytes, and when
\* there are none it first reads `fetch` bytes from the underlying source
\* (0 only at its end).
ExpanderStep(fetch) ==
    /\ xpc = "loop"
    /\ IF xbuf # <<>> THEN fetch = 0
       ELSE IF xfetched = Len(xsrc) THEN fetch = 0
       ELSE 1 <= fetch /\ fetch <= Len(xsrc) - xfetched
    /\ LET buf == IF xbuf # <<>> THEN xbuf
                  ELSE Slice(xsrc, xfetched, xfetched + fetch)
           a == expand_arm(xstate, buf, xcap, xdest)
           next == IF a.panic THEN XPanic ELSE expand_advance(xstate, a.event)
       IN  /\ xfetched' = xfetched + fetch
           /\ IF a.return
              THEN \* State::Done => return Ok(bytes_copied)
                   /\ xpc' = "idle" /\ xret' = "Ok" /\ xn' = Len(xdest)
                   /\ xout' = xout \o xdest
                   /\ xbuf' = buf
                   /\ xdest' = <<>>
                   /\ UNCHANGED <<xstate>>
              ELSE IF next = XPanic
              THEN /\ xpc' = "dead" /\ xret' = "panic"
                   /\ xbuf' = buf
                   /\ UNCHANGED <<xstate, xdest, xout, xn>>
              ELSE IF next = XInvalidData
              THEN \* self.state.advance(event)? returns the error
                   /\ xpc' = "idle" /\ xret' = "InvalidData"
                   /\ xbuf' = Slice(buf, a.consumed, Len(buf))
                   /\ UNCHANGED <<xstate, xdest, xout, xn>>
              ELSE /\ xstate' = next
                   /\ xbuf' = Slice(buf, a.consumed, Len(buf))
                   /\ IF Len(a.copied) = xcap
                      THEN /\ xpc' = "idle" /\ xret' = "Ok" /\ xn' = Len(a.copied)
                           /\ xout' = xout \o a.copied
                           /\ xdest' = <<>>
                      ELSE /\ xdest' = a.copied
                           /\ UNCHANGED <<xpc, xret, xout, xn>>
    /\ UNCHANGED <<xsrc, xcap>>

---------------------------------------------------------------------------
(* archive.rs                                                              *)

\* bitwise exclusive or of two naturals
RECURSIVE BitXor(_, _)
BitXor(a, b) ==
    IF a = 0 THEN b
    ELSE IF b = 0 THEN a
    ELSE (((a % 2) + (b % 2)) % 2) + 2 * BitXor(a \div 2, b \div 2)

\* CRC16/XMODEM (crc16::State<XMODEM>): polynomial 0x1021, MSB first, no
\* reflection, no final xor.  One shift of the 16-bit register:
crc_shift(crc) ==
    IF crc >= 32768 THEN BitXor((crc * 2) % 65536, 4129) ELSE crc * 2

\* the entry of the byte-wise table for the index i
crc_table(i) ==
    crc_shift(crc_shift(crc_shift(crc_shift(
    crc_shift(crc_shift(crc_shift(crc_shift(i * 256))))))))

\* the byte-wise table
crc_table_entries == [i \in 0..255 |-> crc_table(i)]

\* the register after one more byte: (crc << 8) ^ table[(crc >> 8) ^ byte]
crc_byte(crc, byte) ==
    BitXor((crc * 256) % 65536, crc_table_entries[BitXor(crc \div 256, byte)])

\* State::write(bytes), from the register value crc: the first half of the
\* bytes, then the second (the test of the 16-bit register makes TLC evaluate
\* the register after the first half before it goes on to the second)
RECURSIVE crc_write(_, _)
crc_write(crc, bytes) ==
    IF crc \notin 0..65535 \/ bytes = <<>> THEN crc
    ELSE IF Len(bytes) = 1 THEN crc_byte(crc, bytes[1])
    ELSE LET half == Len(bytes) \div 2
         IN  crc_write(crc_write(crc, SubSeq(bytes, 1, half)),
                       SubSeq(bytes, half + 1, Len(bytes)))

\* State::<XMODEM>::new().get() is 0; State::calculate(bytes)
crc_calculate(bytes) == crc_write(0, bytes)

\* u16::from_be_bytes, u32::from_be_bytes
RECURSIVE from_be_bytes(_)
from_be_bytes(bytes) ==
    IF bytes = <<>> THEN 0
    ELSE bytes[Len(bytes)] + 256 * from_be_bytes(SubSeq(bytes, 1, Len(bytes) - 1))

\* encoding_rs::MACINTOSH.decode, as code points: ASCII is kept, 0xAA is the
\* trade mark sign U+2122 (the names of the model use no other byte)
macintosh_decode(name_bytes) ==
    [i \in 1..Len(name_bytes) |->
        IF name_bytes[i] = 170 THEN 8482 ELSE name_bytes[i]]

\* BinHexError
IoError(kind) == [error |-> "IoError", kind |-> kind]
InvalidHeader == [error |-> "InvalidHeader"]
InvalidChecksum(section, provided, calculated) ==
    [error |-> "InvalidChecksum", section |-> section,
     provided |-> provided, calculated |-> calculated]
Ok == [ok |-> TRUE]
Panicked == [panic |-> TRUE]
IsErr(r) == "error" \in DOMAIN r

\* (faulty variant) a comparison that looks at the low byte of the checksums only
checksum_matches_low_byte(provided_checksum, calculated_checksum) ==
    provided_checksum % 256 = calculated_checksum % 256

\* (faulty variant) a calculated checksum of 0 taken for "nothing to compare"
checksum_matches_unless_zero(provided_checksum, calculated_checksum) ==
    calculated_checksum = 0 \/ provided_checksum = calculated_checksum

\* copy_fork: if provided_checksum == calculated_checksum
checksum_matches(provided_checksum, calculated_checksum) ==
    provided_checksum = calculated_checksum

\* (faulty variant) the error with the two checksums in each other's place
checksum_error_swapped(section, provided_checksum, calculated_checksum) ==
    InvalidChecksum(section, calculated_checksum, provided_checksum)

\* copy_fork: Err(BinHexError::InvalidChecksum(section, provided, calculated))
checksum_error(section, provided_checksum, calculated_checksum) ==
    InvalidChecksum(section, provided_checksum, calculated_checksum)

\* (faulty variant) a checksum over the header with its own checksum bytes included
header_checksum_over_all(header_bytes) == crc_calculate(header_bytes)

\* try_from: State::<XMODEM>::calculate(&header_bytes[..header_bytes.len() - 2])
header_checksum(header_bytes) ==
    crc_calculate(Slice(header_bytes, 0, Len(header_bytes) - 2))

\* impl TryFrom<Vec<u8>> for BinHexHeader: Ok(header) or Err(error)
header_try_from(header_bytes) ==
    LET name_length == header_bytes[1]
    IN  IF Len(header_bytes) # name_length + 22 THEN InvalidHeader
        ELSE LET name_bytes == Slice(header_bytes, 1, 1 + name_length)
                 at == 1 + name_length + 1      \* after the version byte
                 file_type_bytes == Slice(header_bytes, at, at + 4)
                 creator_bytes == Slice(header_bytes, at + 4, at + 8)
                 flag_bytes == Slice(header_bytes, at + 8, at + 10)
                 data_fork_length_bytes == Slice(header_bytes, at + 10, at + 14)
                 resource_fork_length_bytes == Slice(header_bytes, at + 14, at + 18)
                 checksum_bytes == Slice(header_bytes, at + 18, at + 20)
                 calculated_checksum == header_checksum(header_bytes)
                 provided_checksum == from_be_bytes(checksum_bytes)
             IN  IF provided_checksum # calculated_checksum
                 THEN InvalidChecksum("Header", provided_checksum, calculated_checksum)
                 ELSE [name |-> macintosh_decode(name_bytes),
                       file_type |-> file_type_bytes,
                       creator |-> creator_bytes,
                       flag |-> from_be_bytes(flag_bytes),
                       data_fork_length |-> from_be_bytes(data_fork_length_bytes),
                       resource_fork_length |-> from_be_bytes(resource_fork_length_bytes)]

\* (faulty variant) a ForkReader whose checksum register starts from 0xFFFF
\* (the initial value of CRC-16/CCITT-FALSE, not that of XMODEM)
ForkReader_crc_from_ffff(len) == [len |-> len, bytes_read |-> 0, crc |-> 65535]

\* (faulty variant) a ForkReader that reads one byte past the fork
ForkReader_one_more(len) == [len |-> len + 1, bytes_read |-> 0, crc |-> 0]

\* ForkReader::new
ForkReader(len) == [len |-> len, bytes_read |-> 0, crc |-> 0]
NoFork == ForkReader(0)

\* the bytes of the expanded stream not yet read
Available == Len(astream) - apos

\* The I/O steps of extract, by kind; a step of the kind just made is not
\* logged again.
Logged(log, step) ==
    IF log # <<>> /\ log[Len(log)] = step THEN log ELSE Append(log, step)

\* (faulty variant) extract handing the data writer to both copy_fork calls
writer_of_always_data(section) == "data_writer"

\* (faulty variant) extract copying the resource fork first
extract_order_reversed == <<"ResourceFork", "DataFork">>

\* extract copies the forks in this order (the two copy_fork calls)
extract_order == <<"DataFork", "ResourceFork">>

\* the writer extract hands to copy_fork with each section
writer_of(section) == IF section = "DataFork" THEN "data_writer" ELSE "resource_writer"

\* the length extract hands to copy_fork with each section
length_of(h, section) ==
    IF section = "DataFork" THEN h.data_fork_length ELSE h.resource_fork_length

\* how many accessor calls are followed
MaxCalls == 2

\* the accessors of BinHexArchive
Accessors == {"filename", "file_type", "creator", "flags", "data_fork_len",
              "resource_fork_len"}

\* (faulty variant) accessors with the two fork lengths exchanged
accessor_lengths_swapped(h, which) ==
    CASE which = "filename" -> h.name
      [] which = "file_type" -> h.file_type
      [] which = "creator" -> h.creator
      [] which = "flags" -> h.flag
      [] which = "data_fork_len" -> h.resource_fork_length
      [] which = "resource_fork_len" -> h.data_fork_length

\* filename, file_type, creator, flags, data_fork_len, resource_fork_len: each
\* returns its field of self.header
accessor(h, which) ==
    CASE which = "filename" -> h.name
      [] which = "file_type" -> h.file_type
      [] which = "creator" -> h.creator
      [] which = "flags" -> h.flag
      [] which = "data_fork_len" -> h.data_fork_length
      [] which = "resource_fork_len" -> h.resource_fork_length

\* (faulty variant) new that does not extend the buffer by the name
header_bytes_len_without_name(name_length) == 22

\* (faulty variant) new reading as many bytes as the longest header has
header_bytes_len_longest(name_length) == 277

\* new: header_bytes.resize(22, 0), then resize(header_bytes.len() + name_length, 0)
header_bytes_len(name_length) == 22 + name_length

\* the stream before BinHexArchive::new
ArchiveStart(stream, info) ==
    /\ astream = stream
    /\ ainfo = info
    /\ apos = 0
    /\ apc = "new"
    /\ asection = "Header"
    /\ header = None
    /\ fork = NoFork
    /\ dataOut = <<>>
    /\ rsrcOut = <<>>
    /\ aresult = "none"
    /\ alog = <<>>
    /\ aget = [which \in Accessors |-> None]
    /\ acalls = 0
    /\ aio = None

\* (faulty variant) new reading with read where it has read_exact: what the
\* stream does not give stays as resize left it, zero
ArchiveNew_read_not_exact ==
    /\ apc = "new"
    /\ LET first == Slice(astream, apos, apos + Min(22, Available))
           name_length == (first \o Zeros(22 - Len(first)))[1]
           len == header_bytes_len(name_length)
           got == Slice(astream, apos, apos + Min(len, Available))
           h == header_try_from(got \o Zeros(len - Len(got)))
       IN  /\ apos' = apos + Len(got)
           /\ IF IsErr(h)
              THEN /\ aresult' = h
                   /\ apc' = "failed"
                   /\ UNCHANGED header
              ELSE /\ aresult' = Ok
                   /\ apc' = "ready"
                   /\ header' = Some(h)
    /\ UNCHANGED <<astream, ainfo, asection, fork, dataOut, rsrcOut, alog, aget,
                   acalls, aio>>

\* BinHexArchive::new: read_exact of 22 bytes, of name_length more, then the
\* header is parsed.  read_exact fails with UnexpectedEof when the stream ends
\* first, and has then taken what there was.
ArchiveNew ==
    /\ apc = "new"
    /\ IF Available < 22
       THEN /\ apos' = Len(astream)
            /\ aresult' = IoError("UnexpectedEof")
            /\ apc' = "failed"
            /\ UNCHANGED header
       ELSE LET name_length == astream[apos + 1]
                len == header_bytes_len(name_length)
            IN  IF Available < len
                THEN /\ apos' = Len(astream)
                     /\ aresult' = IoError("UnexpectedEof")
                     /\ apc' = "failed"
                     /\ UNCHANGED header
                ELSE LET h == header_try_from(Slice(astream, apos, apos + len))
                     IN  /\ apos' = apos + len
                         /\ IF IsErr(h)
                            THEN /\ aresult' = h
                                 /\ apc' = "failed"
                                 /\ UNCHANGED header
                            ELSE /\ aresult' = Ok
                                 /\ apc' = "ready"
                                 /\ header' = Some(h)
    /\ UNCHANGED <<astream, ainfo, asection, fork, dataOut, rsrcOut, alog, aget, acalls, aio>>

\* (faulty variant) an accessor that reads and parses the header again from
\* where the stream stands
ArchiveAccessor_reparses(which) ==
    /\ apc = "ready"
    /\ acalls < MaxCalls
    /\ acalls' = acalls + 1
    /\ LET len == IF Available >= 22 THEN header_bytes_len(astream[apos + 1]) ELSE 22
           h == IF Available >= len
                THEN header_try_from(Slice(astream, apos, apos + len))
                ELSE InvalidHeader
       IN  /\ apos' = Min(Len(astream), apos + len)
           /\ aget' = [aget EXCEPT ![which] =
                           Some(accessor(IF IsErr(h) THEN header[1] ELSE h, which))]
    /\ UNCHANGED <<astream, ainfo, apc, asection, header, fork, dataOut, rsrcOut,
                   aresult, alog, aio>>

\* One call of an accessor on the archive new returned; extract takes the
\* archive by value, so there is no such call once extract has been called.
ArchiveAccessor(which) ==
    /\ apc = "ready"
    /\ acalls < MaxCalls
    /\ acalls' = acalls + 1
    /\ aget' = [aget EXCEPT ![which] = Some(accessor(header[1], which))]
    /\ UNCHANGED <<astream, ainfo, apos, apc, asection, header, fork, dataOut,
                   rsrcOut, aresult, alog, aio>>

\* extract is called: copy_fork of the first section starts with a new ForkReader
ArchiveExtract ==
    /\ apc = "ready"
    /\ apc' = "copy"
    /\ asection' = extract_order[1]
    /\ fork' = ForkReader(length_of(header[1], extract_order[1]))
    /\ aresult' = "none"
    /\ UNCHANGED <<astream, ainfo, apos, header, dataOut, rsrcOut, alog, aget, acalls, aio>>

\* extract returns
ExtractReturns(result) ==
    /\ apc' = "done"
    /\ aresult' = result

\* (faulty variant) ForkReader::read taking whatever the source gives for the
\* buffer, without looking at what remains of the fork
ForkReader_read_unbounded(buf_len, n) ==
    /\ buf_len > 0
    /\ fork.bytes_read # fork.len
    /\ 1 <= n /\ n <= Min(buf_len, Available)

\* ForkReader::read with a buffer of buf_len bytes delivers n bytes (n > 0)
ForkReader_read(buf_len, n) ==
    /\ buf_len > 0
    /\ fork.bytes_read # fork.len
    /\ LET remaining_bytes == fork.len - fork.bytes_read
       IN  IF buf_len <= remaining_bytes
           THEN \* self.source.read(buf)?
                1 <= n /\ n <= Min(buf_len, Available)
           ELSE \* self.source.read_exact(&mut buf[..remaining_bytes])?
                n = remaining_bytes /\ n <= Available

\* One pass of io::copy's loop inside copy_fork: ForkReader::read into a
\* buffer of buf_len bytes, of which the source delivers n, and write_all of
\* what was read to the section's writer.
CopyFork_Write(buf_len, n) ==
    /\ apc = "copy"
    /\ ForkReader_read(buf_len, n)
    /\ LET bytes == Slice(astream, apos, apos + n)
       IN  /\ fork' = [fork EXCEPT !.crc = crc_write(fork.crc, bytes),
                                   !.bytes_read = fork.bytes_read + n]
           /\ apos' = apos + n
           /\ IF writer_of(asection) = "data_writer"
              THEN /\ dataOut' = dataOut \o bytes
                   /\ alog' = Logged(alog, "write_data")
                   /\ UNCHANGED rsrcOut
              ELSE /\ rsrcOut' = rsrcOut \o bytes
                   /\ alog' = Logged(alog, "write_resource")
                   /\ UNCHANGED dataOut
    /\ UNCHANGED <<astream, ainfo, apc, asection, header, aresult, aget, acalls, aio>>

\* ForkReader::read fails in read_exact: the stream ends inside the fork.
\* io::copy returns the error and copy_fork and extract return it.
CopyFork_ReadFails(buf_len) ==
    /\ apc = "copy"
    /\ buf_len > 0
    /\ fork.bytes_read # fork.len
    /\ buf_len > fork.len - fork.bytes_read
    /\ Available < fork.len - fork.bytes_read
    /\ apos' = Len(astream)
    /\ ExtractReturns(IoError("UnexpectedEof"))
    /\ UNCHANGED <<astream, ainfo, asection, header, fork, dataOut, rsrcOut, alog, aget, acalls, aio>>

\* (faulty variant) extract going on to the second copy_fork whatever the
\* first has returned
CopyFork_Finish_goes_on(buf_len, debug_build) ==
    /\ apc = "copy"
    /\ buf_len > 0
    /\ \/ fork.bytes_read = fork.len
       \/ buf_len <= fork.len - fork.bytes_read /\ Available = 0
    /\ IF debug_build /\ fork.bytes_read # fork.len
       THEN /\ ExtractReturns(Panicked)
            /\ UNCHANGED <<apos, asection, fork, alog>>
       ELSE IF Available < 2
       THEN /\ apos' = Len(astream)
            /\ ExtractReturns(IoError("UnexpectedEof"))
            /\ UNCHANGED <<asection, fork, alog>>
       ELSE LET calculated_checksum == fork.crc
                provided_checksum == from_be_bytes(Slice(astream, apos, apos + 2))
            IN  /\ apos' = apos + 2
                /\ alog' = Logged(alog, IF asection = "DataFork"
                                        THEN "read_data_checksum"
                                        ELSE "read_resource_checksum")
                /\ IF asection = extract_order[1]
                   THEN /\ asection' = extract_order[2]
                        /\ fork' = ForkReader(length_of(header[1], extract_order[2]))
                        /\ UNCHANGED <<apc, aresult>>
                   ELSE IF ~checksum_matches(provided_checksum, calculated_checksum)
                   THEN /\ ExtractReturns(checksum_error(asection, provided_checksum,
                                                         calculated_checksum))
                        /\ UNCHANGED <<asection, fork>>
                   ELSE /\ ExtractReturns(Ok)
                        /\ UNCHANGED <<asection, fork>>
    /\ UNCHANGED <<astream, ainfo, header, dataOut, rsrcOut, aget, acalls, aio>>

\* (faulty variant) copy_fork that, after the last checksum, takes bytes left
\* in the stream for an error
CopyFork_Finish_expects_end(buf_len, debug_build) ==
    /\ apc = "copy"
    /\ buf_len > 0
    /\ \/ fork.bytes_read = fork.len
       \/ buf_len <= fork.len - fork.bytes_read /\ Available = 0
    /\ IF debug_build /\ fork.bytes_read # fork.len
       THEN /\ ExtractReturns(Panicked)
            /\ UNCHANGED <<apos, asection, fork, alog>>
       ELSE IF Available < 2
       THEN /\ apos' = Len(astream)
            /\ ExtractReturns(IoError("UnexpectedEof"))
            /\ UNCHANGED <<asection, fork, alog>>
       ELSE LET calculated_checksum == fork.crc
                provided_checksum == from_be_bytes(Slice(astream, apos, apos + 2))
            IN  /\ apos' = apos + 2
                /\ alog' = Logged(alog, IF asection = "DataFork"
                                        THEN "read_data_checksum"
                                        ELSE "read_resource_checksum")
                /\ IF ~checksum_matches(provided_checksum, calculated_checksum)
                   THEN /\ ExtractReturns(checksum_error(asection, provided_checksum,
                                                         calculated_checksum))
                        /\ UNCHANGED <<asection, fork>>
                   ELSE IF asection = extract_order[1]
                   THEN /\ asection' = extract_order[2]
                        /\ fork' = ForkReader(length_of(header[1], extract_order[2]))
                        /\ UNCHANGED <<apc, aresult>>
                   ELSE /\ ExtractReturns(IF Available > 2
                                           THEN IoError("InvalidData")
                                           ELSE Ok)
                        /\ UNCHANGED <<asection, fork>>
    /\ UNCHANGED <<astream, ainfo, header, dataOut, rsrcOut, aget, acalls, aio>>

\* ForkReader::read returns Ok(0), which ends io::copy: either the fork is
\* read (bytes_read == len), or source.read returned 0 at the end of the
\* stream.  The rest of copy_fork follows: checksum(), the two debug
\* assertions (debug_build: whether they are compiled in), read_exact of the
\* 2 checksum bytes and the comparison; after the first section extract goes
\* on to copy_fork of the second.
CopyFork_Finish(buf_len, debug_build) ==
    /\ apc = "copy"
    /\ buf_len > 0
    /\ \/ fork.bytes_read = fork.len
       \/ buf_len <= fork.len - fork.bytes_read /\ Available = 0
    /\ IF debug_build /\ fork.bytes_read # fork.len
       THEN /\ ExtractReturns(Panicked)
            /\ UNCHANGED <<apos, asection, fork, alog>>
       ELSE IF Available < 2
       THEN /\ apos' = Len(astream)
            /\ ExtractReturns(IoError("UnexpectedEof"))
            /\ UNCHANGED <<asection, fork, alog>>
       ELSE LET calculated_checksum == fork.crc
                provided_checksum == from_be_bytes(Slice(astream, apos, apos + 2))
            IN  /\ apos' = apos + 2
                /\ alog' = Logged(alog, IF asection = "DataFork"
                                        THEN "read_data_checksum"
                                        ELSE "read_resource_checksum")
                /\ IF ~checksum_matches(provided_checksum, calculated_checksum)
                   THEN /\ ExtractReturns(checksum_error(asection, provided_checksum,
                                                         calculated_checksum))
                        /\ UNCHANGED <<asection, fork>>
                   ELSE IF asection = extract_order[1]
                   THEN /\ asection' = extract_order[2]
                        /\ fork' = ForkReader(length_of(header[1], extract_order[2]))
                        /\ UNCHANGED <<apc, aresult>>
                   ELSE /\ ExtractReturns(Ok)
                        /\ UNCHANGED <<asection, fork>>
    /\ UNCHANGED <<astream, ainfo, header, dataOut, rsrcOut, aget, acalls, aio>>

\* Kinds of io::Error the byte source or a sink may raise; what the source
\* raises reaches the archive unchanged (read.rs: Err(e) => return Err(e);
\* expand.rs: fill_buf()?), and InvalidData is also what the expander raises
ErrorKinds == {"Interrupted", "BrokenPipe", "InvalidData"}

IoFailure(op, kind) == Some([op |-> op, kind |-> kind])

\* (faulty variant) no error kind is tried again
retried_never(kind) == FALSE

\* read_exact, io::copy and write_all, which new and copy_fork call, go on
\* after an error of kind Interrupted and return every other error
retried(kind) == kind = "Interrupted"

\* A read of the source fails inside new's read_exact, which has taken
\* `taken` bytes before
ArchiveNew_SourceFails(kind, taken) ==
    /\ apc = "new"
    /\ aio = None
    /\ aio' = IoFailure("read", kind)
    /\ IF retried(kind)
       THEN UNCHANGED <<apos, apc, aresult>>
       ELSE /\ taken <= Min(Available, 21)
            /\ apos' = apos + taken
            /\ apc' = "failed"
            /\ aresult' = IoError(kind)
    /\ UNCHANGED <<astream, ainfo, asection, header, fork, dataOut, rsrcOut, alog,
                   aget, acalls>>

\* A read of the source fails inside copy_fork: in ForkReader::read (io::copy
\* reads again after Interrupted, as does read_exact) or in the read_exact of
\* the checksum.  Any other error is returned by copy_fork and by extract.
CopyFork_SourceFails(kind) ==
    /\ apc = "copy"
    /\ aio = None
    /\ aio' = IoFailure("read", kind)
    /\ IF retried(kind)
       THEN UNCHANGED <<apc, aresult>>
       ELSE ExtractReturns(IoError(kind))
    /\ UNCHANGED <<astream, ainfo, apos, asection, header, fork, dataOut, rsrcOut,
                   alog, aget, acalls>>

\* ForkReader::read has delivered n bytes and the write of them fails after
\* `written` of them: write_all writes again after Interrupted, and io::copy
\* returns any other error, with it copy_fork and extract.
CopyFork_SinkFails(buf_len, n, kind, written) ==
    /\ apc = "copy"
    /\ aio = None
    /\ ForkReader_read(buf_len, n)
    /\ written < n
    /\ aio' = IoFailure("write", kind)
    /\ LET bytes == Slice(astream, apos, apos + n)
           out == IF retried(kind) THEN bytes ELSE Slice(bytes, 0, written)
       IN  /\ fork' = [fork EXCEPT !.crc = crc_write(fork.crc, bytes),
                                   !.bytes_read = fork.bytes_read + n]
           /\ apos' = apos + n
           /\ IF writer_of(asection) = "data_writer"
              THEN /\ dataOut' = dataOut \o out
                   /\ alog' = Logged(alog, "write_data")
                   /\ UNCHANGED rsrcOut
              ELSE /\ rsrcOut' = rsrcOut \o out
                   /\ alog' = Logged(alog, "write_resource")
                   /\ UNCHANGED dataOut
    /\ IF retried(kind)
       THEN UNCHANGED <<apc, aresult>>
       ELSE ExtractReturns(IoError(kind))
    /\ UNCHANGED <<astream, ainfo, asection, header, aget, acalls>>

---------------------------------------------------------------------------
(* Specifications                                                          *)

MaxPayload == 2
MaxDest == 2
MaxChunk == 2

\* all sequences over S of length at most n
SeqsUpTo(S, n) == UNION {[1..k -> S] : k \in 0..n}

\* Containers <prefix><banner><tail>:<payload>:<rest>; the payloads are over
\* two data bytes and two kinds of whitespace, the one next_whitespace finds
\* with memchr and one of those it finds with memchr3
Prefixes == {<<>>, <<120, 40>>}
Tails == {<<>>, <<52>>}
PayloadBytes == {SPACE, TAB, 97, 98}
Rests == {<<>>, <<98, 58>>}

Container(parts) ==
    parts.prefix \o BANNER \o parts.tail \o <<DATA_DELIMITER>>
        \o parts.payload \o <<DATA_DELIMITER>> \o parts.rest

ReaderUnused ==
    /\ rsrc = <<>> /\ rparts = <<>> /\ rpos = 0 /\ rstate = FindBannerStart
    /\ rpc = "idle" /\ rcap = 0 /\ rout = <<>> /\ rret = "none" /\ rn = 0

ExpanderUnused ==
    /\ xsrc = <<>> /\ xfetched = 0 /\ xbuf = <<>> /\ xstate = Scan(None)
    /\ xpc = "idle" /\ xcap = 0 /\ xdest = <<>> /\ xout = <<>>
    /\ xret = "none" /\ xn = 0

ArchiveUnused ==
    /\ astream = <<>> /\ ainfo = <<>> /\ apos = 0 /\ apc = "new"
    /\ asection = "Header" /\ header = None /\ fork = NoFork
    /\ dataOut = <<>> /\ rsrcOut = <<>> /\ aresult = "none" /\ alog = <<>>
    /\ aget = <<>> /\ acalls = 0 /\ aio = None

\* The extractor alone, over every container and every way of reading it
InitRead ==
    /\ \E prefix \in Prefixes, tail \in Tails, rest \in Rests,
          payload \in SeqsUpTo(PayloadBytes, MaxPayload) :
          LET parts == [prefix |-> prefix, tail |-> tail,
                        payload |-> payload, rest |-> rest]
          IN  ReaderNew(Container(parts), parts)
    /\ ExpanderUnused
    /\ ArchiveUnused

\* Destination sizes: the small ones, and one that takes the whole container
ReadSizes == (1..MaxDest) \cup {Len(rsrc)}

\* What one source.read may deliver: a short count, or as much as fits
\* (0 stands for the end of the source)
SourceCounts == {0} \cup (1..MaxChunk) \cup {Min(rcap, Len(rsrc) - rpos)}

NextRead ==
    \/ /\ \E d \in ReadSizes : ReaderCall(d)
       /\ UNCHANGED <<xvars, avars>>
    \/ /\ \E bytes_read \in SourceCounts : ReaderFill(bytes_read)
       /\ UNCHANGED <<xvars, avars>>

SpecRead == InitRead /\ [][NextRead]_vars

\* Text before the banner that looks like its beginning: nothing, the
\* banner's first byte, its first two, junk ending in two first bytes, and
\* all of the banner but its last byte
ScanPrefixes == {<<>>, <<40>>, <<40, 84>>, <<120, 40, 40>>, Slice(BANNER, 0, Len(BANNER) - 1)}
ScanPayloads == {<<>>, <<97, SPACE, 98>>}
ScanRests == {<<>>, <<DATA_DELIMITER, 97, DATA_DELIMITER>>}

\* Inputs by shape: a complete container; one without the banner (the prefix
\* and what follows it); one that ends before the opening delimiter; one that
\* ends before the closing delimiter
ScanContainer(parts) ==
    CASE parts.shape = "complete" -> Container(parts)
      [] parts.shape = "no_banner" -> parts.prefix \o parts.rest
      [] parts.shape = "no_data_start" -> parts.prefix \o BANNER \o parts.tail
      [] parts.shape = "no_data_end" ->
            parts.prefix \o BANNER \o parts.tail \o <<DATA_DELIMITER>> \o parts.payload

ScanParts ==
    {[shape |-> "complete", prefix |-> prefix, tail |-> <<>>, payload |-> payload,
      rest |-> <<>>] : prefix \in ScanPrefixes, payload \in ScanPayloads}
    \cup {[shape |-> "no_banner", prefix |-> prefix, tail |-> <<>>, payload |-> <<>>,
           rest |-> rest] : prefix \in ScanPrefixes, rest \in ScanRests}
    \cup {[shape |-> "no_data_start", prefix |-> prefix, tail |-> tail,
           payload |-> <<>>, rest |-> <<>>] :
               prefix \in {<<>>, <<40, 84>>}, tail \in Tails \cup {<<97, SPACE, 98>>}}
    \cup {[shape |-> "no_data_end", prefix |-> prefix, tail |-> <<>>,
           payload |-> payload, rest |-> <<>>] :
               prefix \in {<<>>, <<40, 84>>}, payload \in ScanPayloads \cup {<<SPACE>>}}

\* The extractor over inputs with misleading text before the banner, and over
\* inputs that end too early
InitScan ==
    /\ \E parts \in ScanParts : ReaderNew(ScanContainer(parts), parts)
    /\ ExpanderUnused
    /\ ArchiveUnused

SpecScan == InitScan /\ [][NextRead]_vars

MaxLen == 4

\* Compressed streams: every sequence of at most MaxLen bytes over the escape,
\* the cancel byte and the byte 3 (a literal, or the count N = 3 after an
\* escape); and two more runs, the shortest, N = 1, and the longest, N = 255
XBytes == {CANCEL_ESCAPE, 3, RLE_ESCAPE}
LongRuns == {<<3, RLE_ESCAPE, 1, 3>>, <<65, RLE_ESCAPE, 255>>}

\* a repeat escape directly after a completed run
EscapeAfterRun == {<<65, RLE_ESCAPE, 3, RLE_ESCAPE, 2>>}

\* Destination sizes: the small ones, and one that takes the whole expansion
ExpandSizes == (1..MaxDest) \cup {256 * (Len(xsrc) + 1)}

\* The expander alone, over every stream and every way of reading it
InitExpand ==
    /\ \E compressed \in SeqsUpTo(XBytes, MaxLen) \cup LongRuns \cup EscapeAfterRun :
          ExpanderNew(compressed)
    /\ ReaderUnused
    /\ ArchiveUnused

NextExpand ==
    \/ /\ \E d \in ExpandSizes : ExpanderCall(d)
       /\ UNCHANGED <<rvars, avars>>
    \/ /\ \E fetch \in 0..Len(xsrc) : ExpanderStep(fetch)
       /\ UNCHANGED <<rvars, avars>>

SpecExpand == InitExpand /\ [][NextExpand]_vars

\* The expander read with destinations of every size, the empty one included
NextZero ==
    \/ /\ ExpanderCall(0)
       /\ UNCHANGED <<rvars, avars>>
    \/ NextExpand

SpecZero == InitExpand /\ [][NextZero]_vars

\* The expander with its loop running: a call that is in its loop makes its
\* next pass, because fill_buf returns
ExpanderRuns ==
    /\ \E fetch \in 0..Len(xsrc) : ExpanderStep(fetch)
    /\ UNCHANGED <<rvars, avars>>

InitLive == InitScan \/ InitExpand

\* the extractor was constructed over an input (the expander otherwise)
ReaderInUse == DOMAIN rparts # {}

NextLive ==
    \/ ReaderInUse /\ NextRead
    \/ ~ReaderInUse /\ NextExpand

SpecLive ==
    /\ InitLive
    /\ [][NextLive]_vars
    /\ WF_vars(ExpanderRuns)

MaxFork == 2
MaxCopyBuf == 2

\* n as `width` big-endian bytes
RECURSIVE to_be_bytes(_, _)
to_be_bytes(n, width) ==
    IF width = 0 THEN <<>>
    ELSE Append(to_be_bytes(n \div 256, width - 1), n % 256)

\* The archives the streams are made from: a name, the two forks
Names == {<<>>, <<170>>}
FILE_TYPE == <<84, 69, 88, 84>>
CREATOR == <<116, 116, 120, 116>>
FLAGS == <<1, 2>>
DataForks == {Fill(k, 1) : k \in 0..MaxFork}
ResourceForks == {Fill(k, 3) : k \in 0..MaxFork}

\* the header record of the wire layout, with its checksum
HeaderRecord(name, data_len, rsrc_len) ==
    LET body == <<Len(name)>> \o name \o <<0>> \o FILE_TYPE \o CREATOR \o FLAGS
                    \o to_be_bytes(data_len, 4) \o to_be_bytes(rsrc_len, 4)
    IN  body \o to_be_bytes(crc_calculate(body), 2)

\* the expanded stream of an archive
ArchiveBytes(name, data, resource) ==
    HeaderRecord(name, Len(data), Len(resource))
        \o data \o to_be_bytes(crc_calculate(data), 2)
        \o resource \o to_be_bytes(crc_calculate(resource), 2)

\* What is done to the stream of a valid archive: nothing, one byte flipped
\* (all its bits inverted), the stream cut short, or a byte added at its end
Mutations(stream) ==
    {[kind |-> "none", at |-> 0]}
        \cup {[kind |-> "flip", at |-> i] : i \in 0..(Len(stream) - 1)}
        \cup {[kind |-> "cut", at |-> i] : i \in 0..(Len(stream) - 1)}
        \cup {[kind |-> "extra", at |-> Len(stream)]}

Mutate(stream, m) ==
    CASE m.kind = "none" -> stream
      [] m.kind = "flip" -> [stream EXCEPT ![m.at + 1] = BitXor(@, 255)]
      [] m.kind = "cut" -> Slice(stream, 0, m.at)
      [] m.kind = "extra" -> Append(stream, 7)

\* The archive over every stream: BinHexArchive::new, then extract
Init ==
    /\ \E name \in Names, data \in DataForks, resource \in ResourceForks :
          LET valid == ArchiveBytes(name, data, resource)
          IN  \E m \in Mutations(valid) :
                  ArchiveStart(Mutate(valid, m),
                               [name |-> name, data |-> data, rsrc |-> resource,
                                mutation |-> m])
    /\ ReaderUnused
    /\ ExpanderUnused

\* Sizes of the buffer io::copy reads into: the small ones, and its 8 KiB
CopySizes == (1..MaxCopyBuf) \cup {8192}

Next ==
    \/ /\ ArchiveNew
       /\ UNCHANGED <<rvars, xvars>>
    \/ /\ ArchiveExtract
       /\ UNCHANGED <<rvars, xvars>>
    \/ /\ \E buf_len \in CopySizes, n \in 1..Available : CopyFork_Write(buf_len, n)
       /\ UNCHANGED <<rvars, xvars>>
    \/ /\ \E buf_len \in CopySizes : CopyFork_ReadFails(buf_len)
       /\ UNCHANGED <<rvars, xvars>>
    \/ /\ \E buf_len \in CopySizes, debug_build \in BOOLEAN :
              CopyFork_Finish(buf_len, debug_build)
       /\ UNCHANGED <<rvars, xvars>>

Spec == Init /\ [][Next]_vars

\* the longest name: name_length is one byte of the header
MaxNameLength == 255

\* File names as the header holds them (Mac OS Roman) and as text: none, one
\* with a trademark sign (0xAA, U+2122), and the longest a header can hold
HeaderNames ==
    {[bytes |-> <<>>, text |-> <<>>],
     [bytes |-> <<97, 170>>, text |-> <<97, 8482>>],
     [bytes |-> Fill(MaxNameLength, 98), text |-> Fill(MaxNameLength, 98)]}

\* fork lengths that take more than one byte of their field: 0x0102, 0x010203
LongLengths == {[data |-> 258, resource |-> 66051]}

\* Streams that begin with a valid header: whole archives, alone or with a
\* byte after them, and streams that end where their header does, with a name
\* of every length
InitHeader ==
    /\ \/ \E name \in HeaderNames, data \in DataForks, resource \in ResourceForks :
             LET valid == ArchiveBytes(name.bytes, data, resource)
             IN  \E m \in {[kind |-> "none", at |-> 0],
                            [kind |-> "extra", at |-> Len(valid)]} :
                     ArchiveStart(Mutate(valid, m),
                                  [name |-> name.bytes, text |-> name.text,
                                   data |-> data, rsrc |-> resource,
                                   data_fork_length |-> Len(data),
                                   resource_fork_length |-> Len(resource),
                                   mutation |-> m])
       \/ \E l \in LongLengths, name_length \in 0..MaxNameLength :
             LET long == Fill(name_length, 98)
                 record == HeaderRecord(long, l.data, l.resource)
             IN  ArchiveStart(record,
                              [name |-> long, text |-> long,
                               data |-> <<>>, rsrc |-> <<>>,
                               data_fork_length |-> l.data,
                               resource_fork_length |-> l.resource,
                               mutation |-> [kind |-> "cut", at |-> Len(record)]])
    /\ ReaderUnused
    /\ ExpanderUnused

\* new, then accessor calls, then extract
NextHeader ==
    \/ /\ \E which \in Accessors : ArchiveAccessor(which)
       /\ UNCHANGED <<rvars, xvars>>
    \/ Next

SpecHeader == InitHeader /\ [][NextHeader]_vars

\* The archive over every stream, with at most one failure of the source or
\* of a sink in a run
NextIo ==
    \/ /\ \E kind \in ErrorKinds, taken \in {0, 1, 21} :
              ArchiveNew_SourceFails(kind, taken)
       /\ UNCHANGED <<rvars, xvars>>
    \/ /\ \E kind \in ErrorKinds : CopyFork_SourceFails(kind)
       /\ UNCHANGED <<rvars, xvars>>
    \/ /\ \E buf_len \in CopySizes, n \in 1..Available, kind \in ErrorKinds,
             written \in 0..(MaxFork + 1) :
              CopyFork_SinkFails(buf_len, n, kind, written)
       /\ UNCHANGED <<rvars, xvars>>
    \/ Next

SpecIo == Init /\ [][NextIo]_vars

---------------------------------------------------------------------------
(* Claims                                                                  *)

IsPrefix(a, b) == Len(a) <= Len(b) /\ SubSeq(b, 1, Len(a)) = a
IsWhitespace(b) == b \in Whitespace
IsData(b) == b \notin Whitespace
StripWhitespace(bytes) == SelectSeq(bytes, IsData)

\* a read() with a non-empty buffer has returned Ok(0)
REnded == rpc = "idle" /\ rret = "Ok" /\ rn = 0 /\ rcap > 0
XEnded == xpc = "idle" /\ xret = "Ok" /\ xn = 0 /\ xcap > 0

\* The expansion of a whole stream by one read() into a destination that is
\* never full, the source delivering everything in one fill
RECURSIVE expand_to_end(_, _, _, _)
expand_to_end(state, buf, dest_len, copied) ==
    LET a == expand_arm(state, buf, dest_len, copied)
        next == IF a.panic THEN XPanic ELSE expand_advance(state, a.event)
    IN  IF a.return THEN [ret |-> "Ok", out |-> copied]
        ELSE IF next = XPanic THEN [ret |-> "panic", out |-> copied]
        ELSE IF next = XInvalidData THEN [ret |-> "InvalidData", out |-> copied]
        ELSE expand_to_end(next, Slice(buf, a.consumed, Len(buf)), dest_len, a.copied)

OneShot(compressed) ==
    expand_to_end(Scan(None), compressed, 256 * (Len(compressed) + 1), <<>>)

\* C1: for every container <prefix><banner><tail>:<payload>:<rest>, every split
\* of the source into reads and every non-zero buffer size, no read fails, the
\* bytes returned so far are always a prefix of the payload without its
\* whitespace (so no byte of prefix, banner, tail, delimiters or rest comes
\* out), and at the first Ok(0) they are exactly that.
C1_PayloadWithoutWhitespace ==
    /\ rret \in {"none", "Ok"}
    /\ IsPrefix(rout, StripWhitespace(rparts.payload))
    /\ REnded => rout = StripWhitespace(rparts.payload)

\* C1's case: a container with a prefix, a tail and a rest, whose payload has
\* whitespace in it, read to its end with 1-byte buffers at the end
C1_Witness ==
    /\ REnded /\ rcap = 1
    /\ rparts.prefix # <<>> /\ rparts.tail # <<>> /\ rparts.rest # <<>>
    /\ Len(rparts.payload) = MaxPayload
    /\ \E i \in 1..Len(rparts.payload) : rparts.payload[i] \in Whitespace
    /\ rout # <<>>

\* C2: for every well-formed compressed stream (one its one-shot expansion
\* accepts), whatever the destination sizes and the source fills, no read fails,
\* the bytes returned are always a prefix of the one-shot expansion and at the
\* end equal to it; a stream without 0x90 comes out unchanged.
C2_ChunkingIndependent ==
    (xret \notin {"none", "Ok"} \/ xout # <<>> \/ xdest # <<>> \/ XEnded) =>
        LET one == OneShot(xsrc)
        IN  one.ret = "Ok" =>
                /\ xret \in {"none", "Ok"}
                /\ IsPrefix(xout \o xdest, one.out)
                /\ XEnded => xout = one.out
                /\ (XEnded /\ \A i \in 1..Len(xsrc) : xsrc[i] # RLE_ESCAPE) => xout = xsrc

\* C2's case: a run of three read to the end in 1-byte pieces
C2_Witness ==
    /\ XEnded /\ xcap = 1
    /\ xsrc = <<3, RLE_ESCAPE, 3, CANCEL_ESCAPE>>
    /\ xout = <<3, 3, 3, CANCEL_ESCAPE>>

\* C5: wherever a literal byte B is followed by 0x90 and a count N >= 1, the
\* output has exactly N copies of B there, and what follows is expanded as it
\* would be on its own.
C5_RunOfN ==
    (xret \notin {"none", "Ok"} \/ XEnded) =>
        \A k \in 1..(Len(xsrc) - 2) :
            LET pre == SubSeq(xsrc, 1, k - 1)
                B == xsrc[k]
                N == xsrc[k + 2]
                suf == SubSeq(xsrc, k + 3, Len(xsrc))
            IN  ( /\ B # RLE_ESCAPE /\ xsrc[k + 1] = RLE_ESCAPE /\ N >= 1
                  /\ OneShot(pre).ret = "Ok" /\ OneShot(suf).ret = "Ok" )
                => /\ xret = "Ok"
                   /\ xout = OneShot(pre).out \o Fill(N, B) \o OneShot(suf).out

\* C5's case: the longest run, N = 255, read with 1-byte destinations
C5_Witness ==
    /\ XEnded /\ xcap = 1
    /\ xsrc = <<65, RLE_ESCAPE, 255>>
    /\ xout = Fill(255, 65)

\* C6: wherever the pair 0x90, 0x00 stands (start, middle or end), the output
\* has exactly one byte 0x90 there and nothing is repeated.
C6_CancelledEscape ==
    (xret \notin {"none", "Ok"} \/ XEnded) =>
        \A k \in 1..(Len(xsrc) - 1) :
            LET pre == SubSeq(xsrc, 1, k - 1)
                suf == SubSeq(xsrc, k + 2, Len(xsrc))
            IN  ( /\ xsrc[k] = RLE_ESCAPE /\ xsrc[k + 1] = CANCEL_ESCAPE
                  /\ OneShot(pre).ret = "Ok" /\ OneShot(suf).ret = "Ok" )
                => /\ xret = "Ok"
                   /\ xout = OneShot(pre).out \o <<RLE_ESCAPE>> \o OneShot(suf).out

\* C6's case: the pair between two literals
C6_Witness ==
    /\ XEnded
    /\ xsrc = <<3, RLE_ESCAPE, CANCEL_ESCAPE, 3>>
    /\ xout = <<3, RLE_ESCAPE, 3>>

\* ---- the archive: what the stream holds, read off the wire layout ----

IsChecksumError(r, section) ==
    /\ IsErr(r)
    /\ r.error = "InvalidChecksum"
    /\ r.section = section

\* the header record is all there
HeaderComplete == Len(astream) >= 22 /\ Len(astream) >= 22 + astream[1]
HeaderLen == 22 + astream[1]
HeaderStored == 256 * astream[HeaderLen - 1] + astream[HeaderLen]
HeaderCalculated == crc_calculate(Slice(astream, 0, HeaderLen - 2))

\* a fork of the stream of an archive whose header was accepted
SectionLen(section) ==
    IF section = "DataFork" THEN header[1].data_fork_length
    ELSE header[1].resource_fork_length
SectionAt(section) ==
    IF section = "DataFork" THEN HeaderLen
    ELSE HeaderLen + header[1].data_fork_length + 2
SectionComplete(section) ==
    Len(astream) >= SectionAt(section) + SectionLen(section) + 2
SectionContent(section) ==
    Slice(astream, SectionAt(section), SectionAt(section) + SectionLen(section))
SectionStored(section) ==
    256 * astream[SectionAt(section) + SectionLen(section) + 1]
        + astream[SectionAt(section) + SectionLen(section) + 2]
SectionMatches(section) ==
    /\ SectionComplete(section)
    /\ crc_calculate(SectionContent(section)) = SectionStored(section)
SectionMismatch(section) ==
    /\ SectionComplete(section)
    /\ crc_calculate(SectionContent(section)) # SectionStored(section)
WrittenTo(section) == IF section = "DataFork" THEN dataOut ELSE rsrcOut

\* where the one flipped byte of the stream lies, by the valid archive's layout
FlipInDataFork ==
    /\ ainfo.mutation.kind = "flip"
    /\ ainfo.mutation.at >= 22 + Len(ainfo.name)
    /\ ainfo.mutation.at < 22 + Len(ainfo.name) + Len(ainfo.data)
FlipInResourceFork ==
    /\ ainfo.mutation.kind = "flip"
    /\ ainfo.mutation.at >= 22 + Len(ainfo.name) + Len(ainfo.data) + 2
    /\ ainfo.mutation.at < 22 + Len(ainfo.name) + Len(ainfo.data) + 2 + Len(ainfo.rsrc)

\* C3: for a valid archive extract returns Ok with exactly data_fork_length
\* bytes, the data fork, in the data writer and exactly resource_fork_length
\* bytes, the resource fork, in the resource writer, whatever the sizes of the
\* reads and writes of the copy are; no step of it fails.
C3_ExactLengths ==
    ainfo.mutation.kind = "none" =>
        /\ apc # "failed"
        /\ IsPrefix(dataOut, ainfo.data)
        /\ IsPrefix(rsrcOut, ainfo.rsrc)
        /\ apc = "done" =>
              /\ aresult = Ok
              /\ dataOut = ainfo.data
              /\ rsrcOut = ainfo.rsrc
              /\ Len(dataOut) = header[1].data_fork_length
              /\ Len(rsrcOut) = header[1].resource_fork_length

C3_Witness ==
    /\ apc = "done"
    /\ ainfo.mutation.kind = "none"
    /\ aresult = Ok
    /\ ainfo.name # <<>>
    /\ Len(dataOut) = MaxFork
    /\ Len(rsrcOut) = MaxFork

\* C4: in the order of the I/O steps of extract, every write to the data
\* writer and the read of the data fork's checksum come before the first write
\* to the resource writer, which happens only after that checksum was read; no
\* write to the data writer follows a write to the resource writer.
C4_DataBeforeResource ==
    \A j \in 1..Len(alog) :
        alog[j] = "write_resource" =>
            /\ \E i \in 1..(j - 1) : alog[i] = "read_data_checksum"
            /\ \A k \in (j + 1)..Len(alog) :
                  alog[k] \notin {"write_data", "read_data_checksum"}

C4_Witness ==
    /\ apc = "done"
    /\ alog = <<"write_data", "read_data_checksum",
                "write_resource", "read_resource_checksum">>

\* C7: when the CRC16/XMODEM of a fork's content differs from the checksum
\* stored after it, extract fails with InvalidChecksum(section, provided,
\* calculated): the section is the fork that mismatched, provided the stored
\* value, calculated the computed one, and the fork's writer holds all
\* `length` bytes of the fork; extract reports no other checksum error.
C7_ForkChecksumMismatch ==
    apc = "done" =>
        /\ \A section \in {"DataFork", "ResourceFork"} :
              ( /\ SectionMismatch(section)
                /\ section = "ResourceFork" => SectionMatches("DataFork") )
              => /\ IsChecksumError(aresult, section)
                 /\ aresult.provided = SectionStored(section)
                 /\ aresult.calculated = crc_calculate(SectionContent(section))
                 /\ Len(WrittenTo(section)) = SectionLen(section)
                 /\ WrittenTo(section) = SectionContent(section)
        /\ (IsErr(aresult) /\ aresult.error = "InvalidChecksum")
              => /\ aresult.section \in {"DataFork", "ResourceFork"}
                 /\ SectionMismatch(aresult.section)

C7_Witness ==
    /\ apc = "done"
    /\ IsChecksumError(aresult, "ResourceFork")
    /\ aresult.provided # aresult.calculated
    /\ Len(rsrcOut) = MaxFork
    /\ rsrcOut # ainfo.rsrc

\* C8: extract returns Ok only if the checksum of each fork was read and the
\* CRC16/XMODEM of the fork's content equals it.
C8_OkOnlyIfBothMatch ==
    (apc = "done" /\ aresult = Ok) =>
        /\ SectionMatches("DataFork")
        /\ SectionMatches("ResourceFork")
        /\ \E i \in 1..Len(alog) : alog[i] = "read_data_checksum"
        /\ \E i \in 1..Len(alog) : alog[i] = "read_resource_checksum"

C8_Witness ==
    /\ apc = "done"
    /\ aresult = Ok
    /\ ainfo.mutation.kind = "extra"
    /\ Len(ainfo.data) = 1
    /\ Len(ainfo.rsrc) = 1

\* C9 as stated: one flipped byte in a fork's content gives a checksum
\* mismatch for that section, and the other section's writer holds that
\* section's correct fork (the resource fork when the data fork is corrupted,
\* the data fork when the resource fork is corrupted).
C9_Original ==
    apc = "done" =>
        /\ FlipInDataFork =>
              /\ IsChecksumError(aresult, "DataFork")
              /\ rsrcOut = ainfo.rsrc
        /\ FlipInResourceFork =>
              /\ IsChecksumError(aresult, "ResourceFork")
              /\ dataOut = ainfo.data

\* C9 (amended): one flipped byte in the data fork's content makes extract
\* fail with InvalidChecksum(DataFork, ..) once the whole corrupted fork is in
\* the data writer, and the resource writer receives nothing at any time; one
\* flipped byte in the resource fork's content makes extract fail with
\* InvalidChecksum(ResourceFork, ..) with the correct data fork in the data
\* writer and the whole corrupted fork in the resource writer.
C9_FlipIsolated ==
    /\ FlipInDataFork =>
          /\ rsrcOut = <<>>
          /\ apc = "done" =>
                /\ IsChecksumError(aresult, "DataFork")
                /\ dataOut = SectionContent("DataFork")
                /\ dataOut # ainfo.data
    /\ FlipInResourceFork =>
          /\ IsPrefix(dataOut, ainfo.data)
          /\ apc = "done" =>
                /\ IsChecksumError(aresult, "ResourceFork")
                /\ dataOut = ainfo.data
                /\ rsrcOut = SectionContent("ResourceFork")
                /\ rsrcOut # ainfo.rsrc

C9_Witness ==
    /\ apc = "done"
    /\ FlipInDataFork
    /\ IsChecksumError(aresult, "DataFork")
    /\ Len(ainfo.rsrc) = MaxFork
    /\ rsrcOut = <<>>

\* C10: if the CRC16/XMODEM of the header bytes but the last two differs from
\* the stored header checksum, BinHexArchive::new fails with
\* InvalidChecksum(Header, provided, calculated) and there is no archive and
\* no header; a header there is has a checksum that matched.
C10_HeaderChecksum ==
    apc # "new" =>
        /\ (HeaderComplete /\ HeaderCalculated # HeaderStored) =>
              /\ apc = "failed"
              /\ header = None
              /\ IsChecksumError(aresult, "Header")
              /\ aresult.provided = HeaderStored
              /\ aresult.calculated = HeaderCalculated
        /\ header # None =>
              /\ HeaderComplete
              /\ HeaderCalculated = HeaderStored

C10_Witness ==
    /\ apc = "failed"
    /\ header = None
    /\ IsChecksumError(aresult, "Header")
    /\ aresult.provided # aresult.calculated
    /\ ainfo.mutation.kind = "flip"
    /\ ainfo.name # <<>>

\* what the header record of the stream encodes for each accessor: the name
\* as text, the type, creator and flags every record here carries, and the
\* fork lengths the record was made with
Encoded(which) ==
    CASE which = "filename" -> ainfo.text
      [] which = "file_type" -> FILE_TYPE
      [] which = "creator" -> CREATOR
      [] which = "flags" -> 256 * FLAGS[1] + FLAGS[2]
      [] which = "data_fork_len" -> ainfo.data_fork_length
      [] which = "resource_fork_len" -> ainfo.resource_fork_length

\* the stream is a whole archive (with or without a byte after it)
CompleteArchive == ainfo.mutation.kind \in {"none", "extra"}

\* C11: new accepts every stream that begins with a valid header record, and
\* every accessor called on the archive, before extract, has returned what the
\* record encodes for it: the name as text, the 4 bytes of type and of
\* creator, and flags and fork lengths as big-endian numbers.
C11_AccessorsReportHeader ==
    /\ apc # "failed"
    /\ apc # "new" =>
          \A which \in Accessors :
              aget[which] # None => aget[which] = Some(Encoded(which))

\* C11's case: an archive not yet extracted, with fork lengths of several
\* bytes and a name with a trademark sign or of 255 bytes, whose two length
\* accessors have been called
C11_Witness ==
    /\ apc = "ready"
    /\ ainfo.data_fork_length = 258
    /\ Len(ainfo.name) = MaxNameLength
    /\ aget["data_fork_len"] = Some(258)
    /\ aget["resource_fork_len"] = Some(66051)

\* C12: a call of an accessor changes nothing of the archive (the stream
\* position, the header, the forks written, the state) and an accessor called
\* again returns what it returned before; and extract of a whole archive ends
\* with Ok and both forks written as they are in the archive, however many
\* accessor calls came before it.
C12_HeaderParsedOnce ==
    /\ [][acalls' # acalls =>
              /\ UNCHANGED <<astream, apos, apc, asection, header, fork, dataOut,
                             rsrcOut, aresult, alog>>
              /\ \A which \in Accessors :
                     aget[which] # None => aget'[which] = aget[which]]_vars
    /\ [](CompleteArchive /\ apc = "done" =>
              aresult = Ok /\ dataOut = ainfo.data /\ rsrcOut = ainfo.rsrc)

\* C12's case: extract has ended after as many accessor calls as are followed,
\* and both forks had bytes
C12_Witness ==
    /\ apc = "done" /\ aresult = Ok
    /\ acalls = MaxCalls
    /\ Len(dataOut) = MaxFork /\ Len(rsrcOut) = MaxFork

\* C13: new accepts every stream that begins with a valid header record and
\* has then consumed name_len + 22 bytes, name_len being the first byte of the
\* stream; in a whole archive the bytes that follow are the data fork, and
\* extract writes exactly them to the data writer.
C13_HeaderLength ==
    /\ apc # "failed"
    /\ apc = "ready" =>
          /\ apos = astream[1] + 22
          /\ CompleteArchive =>
                Slice(astream, apos, apos + Len(ainfo.data)) = ainfo.data
    /\ CompleteArchive /\ apc = "done" => dataOut = ainfo.data

\* C13's case: new has returned an archive whose header has a name of 255
\* bytes, followed by a data fork
C13_Witness ==
    /\ apc = "ready"
    /\ astream[1] = MaxNameLength /\ apos = 277
    /\ CompleteArchive /\ Len(ainfo.data) = MaxFork

\* one read() of a whole input into a buffer that holds all of it
ReadWhole(input) ==
    LET r == read_inner(FindBannerStart, input, Len(input), 0, 0)
    IN  [state |-> r.state, out |-> Slice(r.buf, 0, r.copied)]

\* the container of the input, without the text before its banner
WithoutPrefix == Container([rparts EXCEPT !.prefix = <<>>])

\* how far into the banner of the input the source has been read
IntoBanner == rpos - Len(rparts.prefix)

\* C14: for a complete container with text before the banner (text that is,
\* ends in, or repeats the banner's first byte, or is the banner without its
\* last byte), whatever the buffer sizes and source reads, no read fails, the
\* bytes returned are always a prefix of what the container without that text
\* gives, and at the first Ok(0) they are exactly that.
C14_PrefixDiscarded ==
    rparts.shape = "complete" =>
        /\ rret \in {"none", "Ok"}
        /\ (rout # <<>> \/ REnded) =>
              LET bare == ReadWhole(WithoutPrefix)
              IN  /\ bare.state = RDone
                  /\ IsPrefix(rout, bare.out)
                  /\ REnded => rout = bare.out

\* C14's case: a container whose prefix is the banner without its last byte
\* has been read to its end with 1-byte buffers, and payload came out
C14_Witness ==
    /\ rparts.shape = "complete"
    /\ rparts.prefix = Slice(BANNER, 0, Len(BANNER) - 1)
    /\ REnded /\ rcap = 1
    /\ rout = <<97, 98>>

\* C15: in an input that has the banner, after text that fails a partial
\* match at any byte, the extractor is in PartialBannerMatch(k) whenever the
\* source has been read k bytes into the banner (1 <= k < 40), and past the
\* banner's end it looks for the opening delimiter or is beyond it; this for
\* every split of the input into source reads.  No read panics.
C15_PartialMatchResumes ==
    rparts.shape # "no_banner" =>
        /\ rstate # RPanic
        /\ IntoBanner \in 1..(Len(BANNER) - 1) => rstate = PartialBannerMatch(IntoBanner)
        /\ IntoBanner >= Len(BANNER) =>
              rstate.tag \in {"FindDataStart", "ReadData", "Done"}

\* C15's case: the text before the banner is the banner's first byte, so the
\* byte that fails the partial match is the first byte of the banner; the
\* source was read 1 byte at a time and the banner has been found
C15_Witness ==
    /\ rparts.shape = "complete"
    /\ rparts.prefix = <<40>>
    /\ rcap = 1
    /\ rstate = FindDataStart
    /\ IntoBanner = Len(BANNER)

\* C16: for an input without the banner (whatever beginnings of it the input
\* has) or with the banner and no opening delimiter after it, no payload byte
\* is ever returned, the extractor never gets past looking for the opening
\* delimiter, and every read with a non-empty buffer that returns, returns the
\* error UnexpectedEof, at the end of the source.
C16_NoBannerFails ==
    rparts.shape \in {"no_banner", "no_data_start"} =>
        /\ rout = <<>>
        /\ ~REnded
        /\ rstate.tag \in {"FindBannerStart", "PartialBannerMatch", "FindDataStart"}
        /\ (rpc = "idle" /\ rret # "none" /\ rcap > 0) =>
              rret = "UnexpectedEof" /\ rpos = Len(rsrc)

\* C16's case: a read of an input that has the banner but no opening
\* delimiter has failed having found the banner
C16_Witness ==
    /\ rparts.shape = "no_data_start"
    /\ rparts.prefix # <<>>
    /\ rstate = FindDataStart
    /\ rpc = "idle" /\ rret = "UnexpectedEof" /\ rcap > 0

\* C17: for an input that ends after the opening delimiter and before a
\* closing one, a read with a non-empty buffer returns either Ok(n) with
\* n > 0 bytes of the payload, or the error UnexpectedEof once the source is
\* at its end; it never returns Ok(0), and the extractor never reaches Done.
C17_TruncatedFails ==
    rparts.shape = "no_data_end" =>
        /\ ~REnded
        /\ rstate.tag # "Done"
        /\ IsPrefix(rout, StripWhitespace(rparts.payload))
        /\ (rpc = "idle" /\ rret # "none" /\ rcap > 0) =>
              \/ rret = "Ok" /\ rn > 0
              \/ rret = "UnexpectedEof" /\ rpos = Len(rsrc)

\* C17's case: the payload of a truncated container has been returned by
\* earlier reads, and the read after them has failed
C17_Witness ==
    /\ rparts.shape = "no_data_end"
    /\ rout = <<97, 98>>
    /\ rpc = "idle" /\ rret = "UnexpectedEof" /\ rcap > 0

\* the number of bytes of the input up to and including the closing delimiter
ThroughDataEnd ==
    Len(rparts.prefix) + Len(BANNER) + Len(rparts.tail) + 1 + Len(rparts.payload) + 1

\* C18: the extractor is in Done exactly when the source has been read
\* through the closing delimiter; the delimiter is never among the bytes
\* returned, and in Done the bytes returned are the payload without its
\* whitespace, nothing of what follows the delimiter.  Every step taken in
\* Done is a read that returns Ok(0), stays in Done, reads nothing from the
\* source and returns no byte.
C18_DoneAbsorbing ==
    /\ [](/\ rstate = RDone <=> rpos >= ThroughDataEnd
          /\ \A i \in 1..Len(rout) : rout[i] # DATA_DELIMITER
          /\ rstate = RDone => rout = StripWhitespace(rparts.payload))
    /\ [][rstate = RDone =>
              /\ rstate' = RDone
              /\ rpos' = rpos /\ rpc' = "idle"
              /\ rout' = rout
              /\ rret' = "Ok" /\ rn' = 0]_vars

\* C18's case: a container with payload and with text after the closing
\* delimiter that the source still holds; a read in Done has returned Ok(0)
C18_Witness ==
    /\ rstate = RDone /\ REnded
    /\ rparts.rest # <<>> /\ rpos < Len(rsrc)
    /\ rout # <<>>

\* the expander is in Escape and the compressed source has nothing more
EscapeAtEnd == xstate.tag = "Escape" /\ xfetched = Len(xsrc) /\ xbuf = <<>>

\* C19: when the expander stands in Escape with the source exhausted, the
\* read that got there has returned InvalidData, and every step of a later
\* read returns InvalidData again, adds nothing to the output and leaves the
\* state in Escape; the stream is never reported as ended by Ok(0).
C19_EscapeAtEndFails ==
    /\ [](EscapeAtEnd =>
              /\ ~XEnded
              /\ xpc = "idle" => xret = "InvalidData")
    /\ [][EscapeAtEnd /\ xpc = "loop" =>
              /\ xret' = "InvalidData" /\ xpc' = "idle"
              /\ xout' = xout /\ xstate' = xstate]_vars

\* C19's case: the stream ends in 0x90 after a literal; the literal has been
\* returned, and the read after it has failed with the source exhausted
C19_Witness ==
    /\ EscapeAtEnd
    /\ xsrc = <<3, RLE_ESCAPE>>
    /\ xout = <<3>>
    /\ xpc = "idle" /\ xret = "InvalidData"

\* the expander stands at the count byte of a repeat escape and has no byte
\* to repeat
BadEscape ==
    xstate = Escape(None) /\ xbuf # <<>> /\ xbuf[1] # CANCEL_ESCAPE

\* C20: whenever a read has stopped at a repeat escape (0x90 and a non-zero
\* count) with no byte to repeat, at the start of the stream or directly after
\* a completed run, it has returned to its caller with the error InvalidData.
C20_BadEscapeIsError ==
    BadEscape /\ xpc # "loop" => xpc = "idle" /\ xret = "InvalidData"

\* C20's case: a repeat escape directly after a completed run, and the read
\* that met it, which has not returned
C20_Witness ==
    /\ xsrc \in EscapeAfterRun
    /\ BadEscape
    /\ xout \o xdest = <<65, 65, 65>>
    /\ xpc = "dead" /\ xret = "panic"

\* the failure the source or a sink has raised is one that is not tried again
Failed == aio # None /\ aio[1].kind # "Interrupted"

C23_ShortHeaderFails ==
    ~HeaderComplete =>
        /\ apc \in {"new", "failed"}
        /\ header = None
        /\ apc = "failed" => IsErr(aresult)

\* C23's case: new has failed on a stream that has the first 22 bytes of a
\* header and not all of the name
C23_Witness ==
    /\ apc = "failed"
    /\ aresult = IoError("UnexpectedEof")
    /\ Len(astream) >= 22 /\ Len(astream) < 22 + astream[1]

\* the stream has all of both forks and their checksums
ForksComplete == SectionComplete("DataFork") /\ SectionComplete("ResourceFork")

\* C24: when the stream of an accepted archive ends before a fork and its
\* checksum are all there, extract returns an error.
C24_ShortForkIsError ==
    apc = "done" /\ ~ForksComplete => IsErr(aresult)

\* C24's case: extract has ended on a stream that ends inside the resource
\* fork, without returning
C24_Witness ==
    /\ apc = "done" /\ aresult = Panicked
    /\ asection = "ResourceFork"
    /\ ~SectionComplete("ResourceFork")
    /\ Len(dataOut) = MaxFork

\* C28: while a fork is copied the checksum register is the CRC, from 0, of
\* the bytes written to the fork's writer so far, which are the bytes of the
\* stream from the fork's first on, as many as ForkReader has read; the
\* calculated checksum of a checksum error is the CRC of what was written to
\* that fork's writer; and after Ok the stored checksums are the CRCs of what
\* the two writers hold.
C28_CrcOverForkBytes ==
    /\ apc = "copy" =>
          /\ fork.crc = crc_calculate(WrittenTo(asection))
          /\ fork.bytes_read = Len(WrittenTo(asection))
          /\ WrittenTo(asection) =
                Slice(astream, SectionAt(asection), SectionAt(asection) + fork.bytes_read)
    /\ apc = "done" /\ IsErr(aresult) /\ aresult.error = "InvalidChecksum" =>
          aresult.calculated = crc_calculate(WrittenTo(aresult.section))
    /\ apc = "done" /\ aresult = Ok =>
          /\ SectionStored("DataFork") = crc_calculate(dataOut)
          /\ SectionStored("ResourceFork") = crc_calculate(rsrcOut)

\* C28's case: the resource fork is being copied in reads of 1 byte, after a
\* data fork of two bytes, and one byte of it has been written
C28_Witness ==
    /\ apc = "copy" /\ asection = "ResourceFork"
    /\ Len(dataOut) = MaxFork /\ Len(rsrcOut) = 1
    /\ fork.len = MaxFork
    /\ fork.crc = crc_calculate(<<3>>)

\* C29: while a fork is copied ForkReader has read at most len bytes, and the
\* stream has been consumed up to the fork's first byte and those bytes, no
\* further: the checksum and the next fork are unread.
C29_ForkReaderBounded ==
    apc = "copy" =>
        /\ fork.bytes_read <= fork.len
        /\ apos = SectionAt(asection) + fork.bytes_read
        /\ apos <= SectionAt(asection) + SectionLen(asection)

\* C29's case: the data fork has been read whole with the 8 KiB buffer, with a
\* resource fork after it in the stream
C29_Witness ==
    /\ apc = "copy" /\ asection = "DataFork"
    /\ fork.bytes_read = fork.len /\ fork.len = MaxFork
    /\ ainfo.mutation.kind = "none"
    /\ Len(ainfo.rsrc) = MaxFork
    /\ "write_data" \in {alog[i] : i \in 1..Len(alog)}

\* C30: where copy_fork and ForkReader::checksum assert it, ForkReader has
\* read as many bytes as the header declares for the fork, and as many were
\* copied: no execution of extract ends in a failed assertion.
C30_AssertionsHold ==
    apc = "done" => aresult # Panicked

\* C30's case: the stream ends inside the data fork, the copy has ended with
\* fewer bytes than the header declares, and the assertion has failed
C30_Witness ==
    /\ apc = "done" /\ aresult = Panicked
    /\ asection = "DataFork"
    /\ fork.bytes_read < fork.len
    /\ Len(dataOut) = 1

\* the number of bytes of the compressed stream the expander has consumed
XConsumed == xfetched - Len(xbuf)

\* the number of bytes the stream before the escape of the run in progress
\* expands to (the escape and its count are the last two bytes consumed)
RunStart == Len(OneShot(Slice(xsrc, 0, XConsumed - 2)).out)

\* the number of bytes a run of count N adds to the byte it repeats
RunLength == xsrc[XConsumed] - 1

\* C25: in Expand(byte, remaining) the last two bytes consumed are 0x90 and
\* the count N, byte is the byte emitted before the run, and remaining is
\* N - 1 minus the number of repeated bytes emitted for the run; when a read
\* has returned, remaining is at least 1.  No step taken in Expand consumes a
\* byte of the compressed stream or changes the byte, a new call leaves the
\* state as it is, and a pass of the loop leaves Scan(None) exactly when it
\* has emitted the last of the N - 1 repeated bytes, Expand otherwise.
C25_RunAcrossCalls ==
    /\ [](xstate.tag = "Expand" =>
              /\ XConsumed >= 3
              /\ xsrc[XConsumed - 1] = RLE_ESCAPE
              /\ RunStart >= 1
              /\ xstate.byte = (xout \o xdest)[RunStart]
              /\ xstate.n = RunLength - (Len(xout \o xdest) - RunStart)
              /\ xpc = "idle" => xstate.n >= 1 /\ xret = "Ok")
    /\ [][xstate.tag = "Expand" =>
              /\ xfetched' - Len(xbuf') = XConsumed
              /\ xpc = "idle" => xstate' = xstate
              /\ xpc = "loop" =>
                    /\ xstate' = Scan(None) <=>
                            Len(xout' \o xdest') - RunStart = RunLength
                    /\ xstate' # Scan(None) =>
                            /\ xstate'.tag = "Expand"
                            /\ xstate'.byte = xstate.byte
                            /\ xstate'.n < xstate.n
                            /\ xpc' = "idle"]_vars

\* C25's case: the longest run read with 1-byte destinations; 154 of its 254
\* repeated bytes have been returned and the expander waits for the next call
C25_Witness ==
    /\ xsrc = <<65, RLE_ESCAPE, 255>>
    /\ xpc = "idle" /\ xcap = 1
    /\ xout = Fill(155, 65)
    /\ xstate = Expand(65, 100)

\* the last byte of a non-empty sequence
LastOf(bytes) == bytes[Len(bytes)]

\* what the compressed stream consumed before the state was entered expands
\* to (in Escape the last byte consumed is the escape itself)
ExpandedSoFar ==
    OneShot(Slice(xsrc, 0, IF xstate.tag = "Escape" THEN XConsumed - 1 ELSE XConsumed)).out

\* C26: in Scan(Some(b)) and Escape(Some(b)), b is the last byte of what the
\* stream consumed so far expands to, and, as long as no read has failed, the
\* last of the bytes copied to the caller (by this call or an earlier one);
\* Scan is entered from Escape only as Scan(Some(0x90)), with 0x90 emitted;
\* and wherever 0x90, 0x00, 0x90, N (N >= 1) stands where a literal could,
\* the output has N bytes 0x90 there.
C26_LastIsLastDelivered ==
    /\ [](xstate.tag \in {"Scan", "Escape"} /\ xstate.last # None =>
              /\ ExpandedSoFar # <<>>
              /\ xstate.last = Some(LastOf(ExpandedSoFar))
              /\ xret \in {"none", "Ok"} =>
                    /\ xout \o xdest = ExpandedSoFar
                    /\ xstate.last = Some(LastOf(xout \o xdest)))
    /\ [][xstate.tag = "Escape" /\ xstate'.tag = "Scan" =>
              /\ xstate' = Scan(Some(RLE_ESCAPE))
              /\ xout' \o xdest' = (xout \o xdest) \o <<RLE_ESCAPE>>]_vars
    /\ [](xret \notin {"none", "Ok"} \/ XEnded =>
              \A k \in 1..(Len(xsrc) - 3) :
                  LET pre == SubSeq(xsrc, 1, k - 1)
                      N == xsrc[k + 3]
                      suf == SubSeq(xsrc, k + 4, Len(xsrc))
                  IN  ( /\ SubSeq(xsrc, k, k + 2) = <<RLE_ESCAPE, CANCEL_ESCAPE, RLE_ESCAPE>>
                        /\ N >= 1
                        /\ OneShot(pre).ret = "Ok" /\ OneShot(suf).ret = "Ok" )
                      => /\ xret = "Ok"
                         /\ xout = OneShot(pre).out \o Fill(N, RLE_ESCAPE) \o OneShot(suf).out)

\* C26's case: the literal 0x90 was returned by an earlier call, and the
\* escape after it came from a later fill of the source
C26_Witness ==
    /\ xsrc = <<RLE_ESCAPE, CANCEL_ESCAPE, RLE_ESCAPE, 3>>
    /\ xstate = Escape(Some(RLE_ESCAPE))
    /\ xpc = "loop" /\ xcap = 1
    /\ xout = <<RLE_ESCAPE>> /\ xdest = <<>>
    /\ xfetched = 3 /\ xbuf = <<>>

\* C27: a read with a non-empty destination has returned Ok(0) only in Done,
\* never in Scan, Escape or Expand; Done is entered only from Scan, with
\* every byte of the compressed source fetched and consumed; Done is never
\* left; a call made in Done starts with nothing copied, and every pass of
\* the loop in Done returns Ok with the number of bytes copied by this call,
\* which is 0 for every call made in Done, and adds nothing else.
C27_OkZeroOnlyWhenDone ==
    /\ [](XEnded => xstate = XDone)
    /\ [](xstate = XDone =>
              /\ xfetched = Len(xsrc) /\ xbuf = <<>>
              /\ xpc = "idle" => xret = "Ok")
    /\ [][xstate # XDone /\ xstate' = XDone =>
              /\ xstate.tag = "Scan"
              /\ XConsumed = Len(xsrc)]_vars
    /\ [][xstate = XDone =>
              /\ xstate' = XDone
              /\ xpc = "idle" => xpc' = "loop" /\ xdest' = <<>> /\ xout' = xout
              /\ xpc = "loop" =>
                    /\ xpc' = "idle" /\ xret' = "Ok" /\ xn' = Len(xdest)
                    /\ xout' = xout \o xdest]_vars

\* C27's case: after a run was expanded and a read has returned Ok(0), the
\* next read has been called in Done
C27_Witness ==
    /\ xsrc = <<3, RLE_ESCAPE, 3>>
    /\ xstate = XDone
    /\ xout = <<3, 3, 3>>
    /\ xret = "Ok" /\ xn = 0
    /\ xpc = "loop" /\ xcap = 1 /\ xdest = <<>>

\* the passes of the inner loop when the next source.read delivers n bytes
PassesOf(n) ==
    read_passes(rstate, Slice(rsrc, rpos, rpos + n) \o Zeros(rcap - n), n, 0, 0)

\* what the next source.read may deliver, the end of the source apart
NextCounts == {n \in SourceCounts : 1 <= n /\ n <= Min(rcap, Len(rsrc) - rpos)}

\* the events the transition table accepts in a state
Accepted(tag) ==
    CASE tag = "FindBannerStart" -> {"ConsumedBytes", "FoundBannerStart"}
      [] tag = "PartialBannerMatch" -> {"ConsumedBytes", "MatchedBannerBytes"}
      [] tag = "FindDataStart" -> {"ConsumedBytes", "FoundDataStart"}
      [] tag = "ReadData" -> {"ConsumedBytes", "FoundDataEnd"}
      [] OTHER -> {}

\* C31: for every input (complete, without banner, cut before or after the
\* opening delimiter, with misleading text before the banner) and every split
\* into reads, no read has panicked, and every pass of the inner loop that
\* the next source read can bring produces an event its state accepts.
C31_NoIllegalTransition ==
    /\ rstate # RPanic /\ rret # "panic"
    /\ rpc = "loop" =>
          \A n \in NextCounts :
              LET passes == PassesOf(n)
              IN  \A i \in 1..Len(passes) :
                      /\ passes[i].event.tag \in Accepted(passes[i].state.tag)
                      /\ passes[i].next # RPanic

\* C31's case: a complete container after text that fails a partial match
\* twice has been read to its end, through every state of the extractor
C31_Witness ==
    /\ rparts.shape = "complete"
    /\ rparts.prefix = <<120, 40, 40>>
    /\ REnded
    /\ rout = <<97, 98>>

\* the phases of the extractor in their order
Phase(tag) ==
    CASE tag = "FindBannerStart" -> 0
      [] tag = "PartialBannerMatch" -> 1
      [] tag = "FindDataStart" -> 2
      [] tag = "ReadData" -> 3
      [] tag = "Done" -> 4
      [] OTHER -> 5

\* a pass of the inner loop in which a partial match has failed
FailedMatch(pass) ==
    /\ pass.state.tag = "PartialBannerMatch"
    /\ pass.event.tag = "ConsumedBytes"
    /\ pass.next = FindBannerStart

\* C32: every pass of the inner loop leaves the extractor in the phase it was
\* in or a later one, except the pass of a failed partial match, which goes
\* from PartialBannerMatch to FindBannerStart; a pass made before ReadData
\* copies no byte; no byte has been returned before ReadData; and from one
\* source read to the next the phase never goes back from FindDataStart,
\* ReadData or Done, nor back to FindBannerStart otherwise than from
\* PartialBannerMatch.
C32_PhaseForward ==
    /\ [](rout # <<>> => rstate.tag \in {"ReadData", "Done"})
    /\ [](rpc = "loop" =>
              \A n \in NextCounts :
                  LET passes == PassesOf(n)
                  IN  \A i \in 1..Len(passes) :
                          /\ \/ Phase(passes[i].next.tag) >= Phase(passes[i].state.tag)
                             \/ FailedMatch(passes[i])
                          /\ passes[i].state.tag # "ReadData" => passes[i].copied = 0
                          /\ passes[i].next.tag \in {"FindBannerStart", "PartialBannerMatch"}
                                => passes[i].state.tag \in {"FindBannerStart", "PartialBannerMatch"}
                          /\ passes[i].next.tag = "FindDataStart"
                                => passes[i].state.tag \in {"PartialBannerMatch", "FindDataStart"})
    /\ [][\/ Phase(rstate'.tag) >= Phase(rstate.tag)
          \/ rstate.tag = "PartialBannerMatch" /\ rstate' = FindBannerStart]_vars

\* C32's case: a container whose banner comes after text that fails a partial
\* match, with text between banner and opening delimiter, read to its end
\* one byte at a time
C32_Witness ==
    /\ rparts.prefix = <<120, 40>> /\ rparts.tail # <<>>
    /\ REnded /\ rcap = 1
    /\ rout = <<97, 98>>

\* let check_len = cmp::min(bytes_read - bytes_consumed, BANNER.len() - matched),
\* for a pass made in PartialBannerMatch(matched) of a source read of n bytes
CheckLen(pass, n) == Min(n - pass.from, Len(BANNER) - pass.state.matched)

\* C33: between source reads, in PartialBannerMatch(n), 1 <= n < 40 and the
\* last n bytes read from the source are the first n bytes of the banner;
\* and in every pass of the inner loop made in PartialBannerMatch(n) the same
\* holds of the bytes consumed up to the pass, the comparison length is at
\* least 1, stays within the banner (n + length <= 40) and within the bytes
\* just read, and a match counts exactly that length.
C33_PartialMatchBounds ==
    /\ rstate.tag = "PartialBannerMatch" =>
          /\ 1 <= rstate.matched /\ rstate.matched < Len(BANNER)
          /\ rstate.matched <= rpos
          /\ Slice(rsrc, rpos - rstate.matched, rpos) = Slice(BANNER, 0, rstate.matched)
    /\ rpc = "loop" =>
          \A n \in NextCounts :
              LET passes == PassesOf(n)
              IN  \A i \in 1..Len(passes) :
                      passes[i].state.tag = "PartialBannerMatch" =>
                          LET matched == passes[i].state.matched
                              at == rpos + passes[i].from
                              check_len == CheckLen(passes[i], n)
                          IN  /\ 1 <= matched /\ matched < Len(BANNER)
                              /\ matched <= at
                              /\ Slice(rsrc, at - matched, at) = Slice(BANNER, 0, matched)
                              /\ 1 <= check_len
                              /\ matched + check_len <= Len(BANNER)
                              /\ passes[i].from + check_len <= n
                              /\ passes[i].event.tag = "MatchedBannerBytes" =>
                                    /\ passes[i].event.n = check_len
                                    /\ passes[i].consumed = passes[i].from + check_len

\* C33's case: the input begins with the banner without its last byte, and
\* the extractor has matched those 39 bytes over several source reads
C33_Witness ==
    /\ rparts.prefix = Slice(BANNER, 0, Len(BANNER) - 1)
    /\ rstate = PartialBannerMatch(Len(BANNER) - 1)
    /\ rpos = Len(BANNER) - 1
    /\ rpc = "loop" /\ rcap = 2

\* the bytes the source read of this step has delivered
JustRead == Slice(rsrc, rpos, rpos')

\* C34: a read with a non-empty buffer has returned Ok(0) only in Done, and
\* Done only with the closing delimiter read; a read that returns outside
\* Done returns Ok(n) with n > 0 or an error; a source read that brings no
\* payload byte and not the closing delimiter (whitespace only in ReadData,
\* text or banner before the opening delimiter) leaves the read in its loop,
\* with nothing returned.
C34_NoPrematureEnd ==
    /\ [](/\ REnded => rstate = RDone
          /\ rstate = RDone => rpos >= ThroughDataEnd
          /\ rpc = "idle" /\ rret = "Ok" /\ rcap > 0 /\ rstate # RDone => rn > 0)
    /\ [][rpc = "loop" /\ rpc' = "idle" =>
              \/ rret' = "UnexpectedEof" /\ rpos = Len(rsrc) /\ rstate' # RDone
              \/ rret' = "Ok" /\ rn' > 0 /\ rout' # rout
              \/ rret' = "Ok" /\ rstate' = RDone]_vars
    /\ [][rpc = "loop" /\ rpos' > rpos =>
              /\ ( /\ rstate = ReadData
                   /\ \A i \in 1..Len(JustRead) : JustRead[i] \in Whitespace )
                 => rpc' = "loop" /\ rstate' = ReadData /\ rout' = rout
              /\ rstate'.tag \in {"FindBannerStart", "PartialBannerMatch", "FindDataStart"}
                 => rpc' = "loop" /\ rout' = rout]_vars

\* C34's case: the payload begins with whitespace, the source has delivered
\* it in a read of its own, and the read call is still in its loop
C34_Witness ==
    /\ rparts.payload = <<SPACE, 97>>
    /\ rstate = ReadData
    /\ rpos = ThroughDataEnd - 2
    /\ rpc = "loop" /\ rcap = 1
    /\ rout = <<>>

\* C35: a read call of the expander that is in its loop returns (or panics)
\* when fill_buf returns, and every pass of its loop consumes a byte of the
\* source, copies a byte, changes the state, or returns.  A read call of the
\* extractor that is in its loop can always make a pass (the source has a
\* byte, or is at its end), and every pass returns or takes at least one more
\* byte of the finite source, so that the call returns after at most as many
\* passes as the source has bytes left, and one more.  Within a pass, every
\* pass of the inner loop consumes at least one byte or reaches Done, except
\* a failed partial match, which consumes none and is followed by a pass in
\* FindBannerStart that does.
C35_ReadsTerminate ==
    /\ (xpc = "loop") ~> (xpc # "loop")
    /\ [][xpc = "loop" =>
              \/ xfetched' - Len(xbuf') > XConsumed
              \/ Len(xout' \o xdest') > Len(xout \o xdest)
              \/ xstate' # xstate
              \/ xpc' # "loop"]_vars
    /\ [](rpos <= Len(rsrc) /\ (rpc = "loop" => rpos = Len(rsrc) \/ NextCounts # {}))
    /\ [][rpc = "loop" => rpc' = "idle" \/ rpos' > rpos]_vars
    /\ [](rpc = "loop" =>
              \A n \in NextCounts :
                  LET passes == PassesOf(n)
                  IN  \A i \in 1..Len(passes) :
                          \/ passes[i].consumed > passes[i].from
                          \/ passes[i].next = RDone
                          \/ /\ FailedMatch(passes[i])
                             /\ passes[i].consumed = passes[i].from
                             /\ i < Len(passes)
                             /\ passes[i + 1].state = FindBannerStart
                             /\ passes[i + 1].consumed > passes[i + 1].from)

\* C35's case: a container after text that fails a partial match twice, read
\* in one call with a buffer that holds all of it
C35_Witness ==
    /\ rsrc # <<>>
    /\ rparts.prefix = <<120, 40, 40>>
    /\ rcap = Len(rsrc)
    /\ rpc = "idle" /\ rret = "Ok" /\ rn > 0

\* C36: a read of the expander with a zero-length destination that has ended
\* has returned Ok(0); it has not panicked on the assertion capacity > 0 of
\* the Scan arm or on an index, and has not returned an error.
C36_ZeroDestOk ==
    (xcap = 0 /\ xpc # "loop" /\ xret # "none") =>
        xpc = "idle" /\ xret = "Ok" /\ xn = 0

\* C36's case: after a byte was returned by a read, a read with a zero-length
\* destination has met the next byte of the source in the Scan arm and has
\* panicked
C36_Witness ==
    /\ xcap = 0
    /\ xsrc = <<3, 3>>
    /\ xout = <<3>>
    /\ xstate = Scan(Some(3))
    /\ xbuf = <<3>>
    /\ xpc = "dead" /\ xret = "panic"

\* C37: when new has failed, its error is not InvalidHeader: it is
\* IoError(UnexpectedEof) when the stream ends before the name_len + 22 bytes
\* its first byte asks for, and the checksum error of the header otherwise;
\* nor does extract ever return InvalidHeader.
C37_NoInvalidHeader ==
    /\ apc = "failed" =>
          /\ aresult # InvalidHeader
          /\ ~HeaderComplete => aresult = IoError("UnexpectedEof")
          /\ HeaderComplete =>
                /\ IsChecksumError(aresult, "Header")
                /\ apos = HeaderLen
    /\ apc = "done" => aresult # InvalidHeader

\* C37's case: the name length byte of a header with a name was changed, so
\* that it asks for more bytes than the stream has; new has failed with
\* the end of the stream
C37_Witness ==
    /\ apc = "failed"
    /\ ainfo.mutation = [kind |-> "flip", at |-> 0]
    /\ Len(ainfo.name) = 1
    /\ Len(astream) > 22 + Len(ainfo.name)
    /\ aresult = IoError("UnexpectedEof")

\* where the checksum of the resource fork ends in the stream
ForksEnd == SectionAt("ResourceFork") + SectionLen("ResourceFork") + 2

\* C38: once the header is accepted, the stream is never read beyond the
\* checksum of the resource fork; when extract has returned Ok it has read
\* exactly to there and the writers hold the two forks; and when the stream
\* holds both forks with matching checksums, extract returns Ok whatever
\* follows them in the stream.
C38_TrailingIgnored ==
    /\ header # None => apos <= ForksEnd
    /\ apc = "done" /\ aresult = Ok =>
          /\ apos = ForksEnd
          /\ dataOut = SectionContent("DataFork")
          /\ rsrcOut = SectionContent("ResourceFork")
    /\ ( /\ apc = "done"
         /\ SectionMatches("DataFork") /\ SectionMatches("ResourceFork") )
       => aresult = Ok

\* C38's case: a valid archive with one more byte after the checksum of the
\* resource fork has been extracted, and that byte is unread
C38_Witness ==
    /\ apc = "done" /\ aresult = Ok
    /\ ainfo.mutation.kind = "extra"
    /\ apos = Len(astream) - 1
    /\ Len(dataOut) = MaxFork /\ Len(rsrcOut) = MaxFork

\* the header declares the length 0 for the fork
EmptyFork(section) == header # None /\ SectionLen(section) = 0

\* C39: while a fork declared with length 0 is copied, nothing is written to
\* its writer, nothing is read and the checksum register is 0; when extract
\* has gone beyond such a fork, its two checksum bytes in the stream are 0
\* and the next section starts 2 bytes after the fork's position; a
\* checksum error for such a fork has calculated 0 and a stored value other
\* than 0; and once extract has returned with both sections in the stream,
\* an empty data fork has passed exactly if its stored checksum is 0, and,
\* the data fork matching, an empty resource fork has given Ok exactly if
\* its stored checksum is 0.
C39_EmptyFork ==
    /\ apc = "copy" /\ EmptyFork(asection) =>
          /\ WrittenTo(asection) = <<>>
          /\ fork.len = 0 /\ fork.bytes_read = 0 /\ fork.crc = 0
          /\ apos = SectionAt(asection)
    /\ apc \in {"copy", "done"} /\ EmptyFork("DataFork") =>
          /\ dataOut = <<>>
          /\ SectionAt("ResourceFork") = SectionAt("DataFork") + 2
          /\ asection = "ResourceFork" =>
                /\ SectionStored("DataFork") = 0
                /\ apos >= SectionAt("ResourceFork")
    /\ ( /\ apc = "done" /\ IsErr(aresult) /\ aresult.error = "InvalidChecksum"
         /\ aresult.section # "Header" /\ EmptyFork(aresult.section) )
       => /\ aresult.calculated = 0
             /\ aresult.provided = SectionStored(aresult.section)
             /\ aresult.provided # 0
    /\ apc = "done" /\ EmptyFork("DataFork") /\ SectionComplete("DataFork") =>
          (SectionStored("DataFork") = 0 <=> ~IsChecksumError(aresult, "DataFork"))
    /\ ( /\ apc = "done" /\ EmptyFork("ResourceFork")
         /\ SectionMatches("DataFork") /\ SectionComplete("ResourceFork") )
       => /\ rsrcOut = <<>>
          /\ (SectionStored("ResourceFork") = 0) <=> (aresult = Ok)
          /\ apos = SectionAt("ResourceFork") + 2

\* C39's case: an archive with an empty data fork and a resource fork of two
\* bytes has been extracted
C39_Witness ==
    /\ apc = "done" /\ aresult = Ok
    /\ EmptyFork("DataFork")
    /\ dataOut = <<>>
    /\ Len(rsrcOut) = MaxFork
    /\ alog = <<"read_data_checksum", "write_resource", "read_resource_checksum">>

====
